---- MODULE Spec2Model ----
(***************************************************************************)
(* Model of the Kubernetes API proxy worker (src/worker.js): the pure      *)
(* helpers validateApiUrl, validateOrigin, sanitizePath,                   *)
(* createErrorResponse, handleCorsPreflight, isDashboardPath and           *)
(* hardenHeaders, and the request handler `fetch`, split at its await      *)
(* points.  Strings are TLA+ strings handled character by character        *)
(* through Len, SubSeq and \o.  An optional value (a header that may be    *)
(* absent, an env variable that may be unset, null) is None or Some(v).    *)
(***************************************************************************)
EXTENDS Integers, Sequences, FiniteSets, TLC

VARIABLES
    pc,         \* slot -> position of the handler invocation
    req,        \* slot -> the incoming Request
    env,        \* slot -> the env bindings of the invocation
    requestId,  \* slot -> crypto.randomUUID() of the invocation
    logs,       \* slot -> sequence of console.log events of the invocation
    fetches,    \* slot -> sequence of outbound fetch() calls
    response,   \* slot -> what the handler's promise settled with
    outcome,    \* slot -> what the awaited outbound fetch settled with
    corsValidation, \* slot -> the handler's local of that name (line 375)
    events,     \* slot -> the invocation's effects in program order
    arg,        \* argument of a pure-function application
    ret         \* its result

vars == <<pc, req, env, requestId, logs, fetches, response, outcome, corsValidation,
          events, arg, ret>>

hvars == <<pc, req, env, requestId, logs, fetches, response, outcome, corsValidation,
           events>>

-----------------------------------------------------------------------------
(* Optional values *)

None == << >>

Some(v) == <<v>>

Get(o) == o[1]

\* JavaScript truthiness of a string-or-null: null, undefined and '' are falsy
Truthy(o) == o # None /\ Get(o) # ""

\* a ?? b: only an absent value falls back, the empty string is kept
OrElseUnsetOnly(o, d) == IF o # None THEN Get(o) ELSE d

\* a || b for an optional string a and a string b
OrElse(o, d) == IF Truthy(o) THEN Get(o) ELSE d

-----------------------------------------------------------------------------
(* String primitives, after the String.prototype methods the code calls *)

CharAt(s, i) == SubSeq(s, i, i)

\* s.slice(n)
Slice(s, n) == SubSeq(s, n + 1, Len(s))

StartsWith(s, p) == Len(s) >= Len(p) /\ SubSeq(s, 1, Len(p)) = p

EndsWith(s, p) == Len(s) >= Len(p) /\ SubSeq(s, Len(s) - Len(p) + 1, Len(s)) = p

\* s.includes(p) for strings
Contains(s, p) == \E i \in 1..(Len(s) - Len(p) + 1) : SubSeq(s, i, i + Len(p) - 1) = p

\* s.indexOf(p), 1-based; 0 when absent
IndexOf(s, p) ==
    IF Contains(s, p)
    THEN CHOOSE i \in 1..(Len(s) - Len(p) + 1) :
            /\ SubSeq(s, i, i + Len(p) - 1) = p
            /\ \A j \in 1..(i - 1) : SubSeq(s, j, j + Len(p) - 1) # p
    ELSE 0

Uppers == "ABCDEFGHIJKLMNOPQRSTUVWXYZ"

Lowers == "abcdefghijklmnopqrstuvwxyz"

UpperSet == {CharAt(Uppers, k) : k \in 1..Len(Uppers)}

LowerOf == [c \in UpperSet |-> CharAt(Lowers, IndexOf(Uppers, c))]

LowerChar(c) == IF c \in UpperSet THEN LowerOf[c] ELSE c

RECURSIVE ToLowerCase(_)
ToLowerCase(s) ==
    IF s = "" THEN "" ELSE LowerChar(CharAt(s, 1)) \o ToLowerCase(Slice(s, 1))

IsSpace(c) == c = " "

RECURSIVE TrimStart(_)
TrimStart(s) ==
    IF s # "" /\ IsSpace(CharAt(s, 1)) THEN TrimStart(Slice(s, 1)) ELSE s

RECURSIVE TrimEnd(_)
TrimEnd(s) ==
    IF s # "" /\ IsSpace(CharAt(s, Len(s)))
    THEN TrimEnd(SubSeq(s, 1, Len(s) - 1)) ELSE s

Trim(s) == TrimEnd(TrimStart(s))

\* s.split(sep) for a one-character separator: a sequence of strings
RECURSIVE Split(_, _)
Split(s, sep) ==
    LET k == IndexOf(s, sep)
    IN  IF k = 0 THEN <<s>>
        ELSE <<SubSeq(s, 1, k - 1)>> \o Split(Slice(s, k), sep)

\* parts.join(sep)
RECURSIVE Join(_, _)
Join(parts, sep) ==
    IF parts = << >> THEN ""
    ELSE IF Len(parts) = 1 THEN parts[1]
    ELSE parts[1] \o sep \o Join(Tail(parts), sep)

-----------------------------------------------------------------------------
(* sanitizePath *)

\* path.replace(/\.\./g, ''): leftmost non-overlapping matches are removed
RECURSIVE RemoveDotDot(_)
RemoveDotDot(s) ==
    IF s = "" THEN ""
    ELSE IF StartsWith(s, "..") THEN RemoveDotDot(Slice(s, 2))
    ELSE CharAt(s, 1) \o RemoveDotDot(Slice(s, 1))

RECURSIVE StripSlashes(_)
StripSlashes(s) ==
    IF s # "" /\ CharAt(s, 1) = "/" THEN StripSlashes(Slice(s, 1)) ELSE s

\* s.replace(/\/+/g, '/'): every run of slashes becomes one slash
RECURSIVE CollapseSlashes(_)
CollapseSlashes(s) ==
    IF s = "" THEN ""
    ELSE IF CharAt(s, 1) = "/" THEN "/" \o CollapseSlashes(StripSlashes(s))
    ELSE CharAt(s, 1) \o CollapseSlashes(Slice(s, 1))

sanitizePathSwapped(path) ==
    LET sanitized == RemoveDotDot(CollapseSlashes(path))
    IN  IF ~StartsWith(sanitized, "/") THEN "/" \o sanitized ELSE sanitized

sanitizePath(path) ==
    LET sanitized == CollapseSlashes(RemoveDotDot(path))
    IN  IF ~StartsWith(sanitized, "/") THEN "/" \o sanitized ELSE sanitized

-----------------------------------------------------------------------------
(* new URL(...): the parts of the URL parser the code relies on.  Hosts     *)
(* are names or dotted decimals written canonically; userinfo, IPv6         *)
(* literals and percent-encoding outside dot segments are not modelled.     *)

Digits == "0123456789"

SchemeChars == Lowers \o Digits \o "+-."

AllIn(s, alphabet) == \A i \in 1..Len(s) : Contains(alphabet, CharAt(s, i))

SpecialSchemes == {"http", "https", "ws", "wss", "ftp"}

DefaultPort(scheme) ==
    CASE scheme = "https" -> "443"
      [] scheme = "wss"   -> "443"
      [] scheme = "http"  -> "80"
      [] scheme = "ws"    -> "80"
      [] scheme = "ftp"   -> "21"
      [] OTHER            -> ""

\* first position of "/", "?" or "#" in s; Len(s) + 1 when there is none
AuthorityEnd(s) ==
    LET hits == {i \in 1..Len(s) : CharAt(s, i) \in {"/", "?", "#"}}
    IN  IF hits = {} THEN Len(s) + 1 ELSE CHOOSE i \in hits : \A j \in hits : i <= j

QueryStart(s) ==
    LET hits == {i \in 1..Len(s) : CharAt(s, i) \in {"?", "#"}}
    IN  IF hits = {} THEN Len(s) + 1 ELSE CHOOSE i \in hits : \A j \in hits : i <= j

IsSingleDot(seg) == ToLowerCase(seg) \in {".", "%2e"}

IsDoubleDot(seg) == ToLowerCase(seg) \in {"..", ".%2e", "%2e.", "%2e%2e"}

DropLast(q) == IF q = << >> THEN q ELSE SubSeq(q, 1, Len(q) - 1)

RECURSIVE NormSegments(_, _)
NormSegments(segs, acc) ==
    IF segs = << >> THEN acc
    ELSE LET s    == Head(segs)
             last == Len(segs) = 1
         IN  IF IsDoubleDot(s)
             THEN NormSegments(Tail(segs),
                               IF last THEN Append(DropLast(acc), "") ELSE DropLast(acc))
             ELSE IF IsSingleDot(s)
             THEN NormSegments(Tail(segs), IF last THEN Append(acc, "") ELSE acc)
             ELSE NormSegments(Tail(segs), Append(acc, s))

\* the URL parser's path state for a path of a special scheme: "." and ".."
\* segments (also percent-encoded) are resolved, empty segments are kept
RemoveDotSegments(path) ==
    IF path = "" THEN "/"
    ELSE "/" \o Join(NormSegments(Split(Slice(path, 1), "/"), << >>), "/")

\* url.search: from the first "?" up to a "#"; a lone "?" gives the empty string
SearchOf(s) ==
    LET q == IndexOf(s, "?")
        h == IndexOf(s, "#")
        e == IF h = 0 THEN Len(s) ELSE h - 1
    IN  IF q = 0 \/ (h # 0 /\ h < q) \/ e = q THEN "" ELSE SubSeq(s, q, e)

BadUrl ==
    [ok |-> FALSE, protocol |-> "", hostname |-> "", host |-> "", pathname |-> "",
     search |-> ""]

HostWithPort(name, port) == IF port = "" THEN name ELSE name \o ":" \o port

\* host state: name is the lower-cased host, port the text after its ":"
ParseHost(scheme, name, port, tail) ==
    IF name = "" \/ Contains(name, " ") \/ ~AllIn(port, Digits)
    THEN BadUrl
    ELSE [ok       |-> TRUE,
          protocol |-> scheme \o ":",
          hostname |-> name,
          host     |-> HostWithPort(name, IF port = DefaultPort(scheme) THEN "" ELSE port),
          pathname |-> RemoveDotSegments(SubSeq(tail, 1, QueryStart(tail) - 1)),
          search   |-> SearchOf(tail)]

SplitHostPort(scheme, auth, c, tail) ==
    ParseHost(scheme,
              ToLowerCase(IF c = 0 THEN auth ELSE SubSeq(auth, 1, c - 1)),
              IF c = 0 THEN "" ELSE Slice(auth, c),
              tail)

\* authority state: after is the input behind the scheme and its slashes,
\* e the position that ends the authority
ParseAuthority(scheme, after, e) ==
    SplitHostPort(scheme, SubSeq(after, 1, e - 1),
                  IndexOf(SubSeq(after, 1, e - 1), ":"), Slice(after, e - 1))

ParseAfterScheme(scheme, rest) ==
    IF ~Contains(Lowers, CharAt(scheme, 1)) \/ ~AllIn(scheme, SchemeChars)
    THEN BadUrl
    ELSE IF scheme \notin SpecialSchemes
    THEN [ok |-> TRUE, protocol |-> scheme \o ":", hostname |-> "", host |-> "",
          pathname |-> SubSeq(rest, 1, QueryStart(rest) - 1),
          search |-> SearchOf(rest)]
    ELSE ParseAuthority(scheme, StripSlashes(rest), AuthorityEnd(StripSlashes(rest)))

ParseFromColon(s, k) ==
    IF k <= 1 THEN BadUrl
    ELSE ParseAfterScheme(ToLowerCase(SubSeq(s, 1, k - 1)), Slice(s, k))

\* new URL(s) for an absolute URL string; ok = FALSE where the constructor throws
ParseURL(s) == ParseFromColon(s, IndexOf(s, ":"))

\* new URL(path, base).toString() for a path that begins with a single "/"
\* and a parsed base: the base's scheme and host with the path in place of
\* the base's path
ResolveAgainst(path, b) == b.protocol \o "//" \o b.host \o RemoveDotSegments(path)

-----------------------------------------------------------------------------
(* validateApiUrl *)

VERSION == "1.0.2"

DEFAULT_UPSTREAM_URL == "https://api.scarmonit.com"

\* line 210 without the test for the 10. prefix
IsPrivateHostNoTen(hostname) ==
    \/ hostname = "localhost"
    \/ hostname = "127.0.0.1"
    \/ StartsWith(hostname, "192.168.")

IsPrivateHost(hostname) ==
    \/ hostname = "localhost"
    \/ hostname = "127.0.0.1"
    \/ StartsWith(hostname, "192.168.")
    \/ StartsWith(hostname, "10.")

\* lines 200-216: url is new URL(urlString), ok = FALSE for the catch
ValidateParsed(url) ==
    IF ~url.ok
    THEN [valid |-> FALSE, error |-> "URL is malformed"]
    ELSE IF url.protocol # "https:"
    THEN [valid |-> FALSE, error |-> "URL must use HTTPS protocol"]
    ELSE IF url.hostname = ""
    THEN [valid |-> FALSE, error |-> "URL must have a valid hostname"]
    ELSE IF IsPrivateHost(ToLowerCase(url.hostname))
    THEN [valid |-> FALSE, error |-> "URL cannot point to localhost or private networks"]
    ELSE [valid |-> TRUE, error |-> ""]

\* urlString is an optional string (undefined when unset)
validateApiUrl(urlString) ==
    IF ~Truthy(urlString)
    THEN [valid |-> FALSE, error |-> "URL is required and must be a string"]
    ELSE ValidateParsed(ParseURL(Get(urlString)))

-----------------------------------------------------------------------------
(* validateOrigin *)

TrimLower(o) == ToLowerCase(Trim(o))

\* allowedOrigins.split(',').map(o => o.trim().toLowerCase())
AllowedList(allowedOrigins) ==
    LET parts == Split(allowedOrigins, ",")
    IN  [i \in 1..Len(parts) |-> TrimLower(parts[i])]

\* lines 250-253 with the suffix test without its leading dot
HostnameMatchesSuffix(originUrl, baseDomain) ==
    /\ originUrl.ok
    /\ EndsWith(originUrl.hostname, baseDomain)

\* lines 250-253: originUrl is new URL(requestOrigin), ok = FALSE for the catch
HostnameMatches(originUrl, baseDomain) ==
    /\ originUrl.ok
    /\ \/ EndsWith(originUrl.hostname, "." \o baseDomain)
       \/ originUrl.hostname = baseDomain

\* lines 247-257 with a wildcard entry that stands for https origins only
WildcardMatchesHttpsOnly(allowed, requestOrigin) ==
    /\ StartsWith(allowed, "*.")
    /\ ParseURL(requestOrigin).protocol = "https:"
    /\ HostnameMatches(ParseURL(requestOrigin), Slice(allowed, 2))

\* lines 247-257
WildcardMatches(allowed, requestOrigin) ==
    /\ StartsWith(allowed, "*.")
    /\ HostnameMatches(ParseURL(requestOrigin), Slice(allowed, 2))

\* lines 237-260
MatchAgainst(origin, allowedList, requestOrigin) ==
    IF \E k \in 1..Len(allowedList) : allowedList[k] = requestOrigin
    THEN [allowed |-> TRUE, matchedOrigin |-> origin]
    ELSE IF \E k \in 1..Len(allowedList) : WildcardMatches(allowedList[k], requestOrigin)
    THEN [allowed |-> TRUE, matchedOrigin |-> origin]
    ELSE [allowed |-> FALSE, matchedOrigin |-> ""]

\* origin is the optional Origin header (null when absent)
validateOrigin(origin, allowedOrigins) ==
    IF allowedOrigins = "*"
    THEN [allowed |-> TRUE, matchedOrigin |-> "*"]
    ELSE IF ~Truthy(origin)
    THEN [allowed |-> FALSE, matchedOrigin |-> ""]
    ELSE MatchAgainst(Get(origin), AllowedList(allowedOrigins), ToLowerCase(Get(origin)))

-----------------------------------------------------------------------------
(* Headers objects: names are case-insensitive, so a Headers object is a    *)
(* function from lower-cased names to optional values.                      *)

HeaderNames ==
    {"access-control-allow-origin", "access-control-allow-methods",
     "access-control-allow-headers", "access-control-expose-headers",
     "access-control-max-age", "x-content-type-options", "x-frame-options",
     "x-xss-protection", "referrer-policy", "strict-transport-security",
     "x-request-id", "cache-control", "pragma", "server", "x-powered-by",
     "content-type", "host", "user-agent", "authorization", "origin", "upgrade",
     "cf-connecting-ip"}

EmptyHeaders == [n \in HeaderNames |-> None]

\* the header names as the code writes them
WrittenNames ==
    {"Origin", "Upgrade", "CF-Connecting-IP", "Host", "User-Agent", "X-Request-ID",
     "Authorization", "Content-Type", "Access-Control-Allow-Origin",
     "Access-Control-Allow-Methods", "Access-Control-Allow-Headers",
     "Access-Control-Expose-Headers", "Access-Control-Max-Age",
     "X-Content-Type-Options", "X-Frame-Options", "X-XSS-Protection",
     "Referrer-Policy", "Strict-Transport-Security", "Cache-Control", "Pragma",
     "Server", "X-Powered-By"}

\* the lower-cased form of each written name, computed once
KeyOf == [n \in WrittenNames |-> ToLowerCase(n)]

Key(name) == IF name \in WrittenNames THEN KeyOf[name] ELSE ToLowerCase(name)

HGet(h, name) == h[Key(name)]

HSet(h, name, value) == [h EXCEPT ![Key(name)] = Some(value)]

HDelete(h, name) == [h EXCEPT ![Key(name)] = None]

\* new Headers({name: value, ...}) from a sequence of <<name, value>> pairs
RECURSIVE HeadersOf(_)
HeadersOf(pairs) ==
    IF pairs = << >> THEN EmptyHeaders
    ELSE HSet(HeadersOf(DropLast(pairs)), pairs[Len(pairs)][1], pairs[Len(pairs)][2])

-----------------------------------------------------------------------------
(* Response bodies and responses *)

NullBody == [kind |-> "null"]

TextBody(t) == [kind |-> "text", text |-> t]

\* JSON.stringify(obj): obj is a record holding the fields that are defined
JsonBody(obj) == [kind |-> "json", json |-> obj]

\* a body stream handed over from another message
StreamBody(of) == [kind |-> "stream", of |-> of]

Pending == [type |-> "pending"]

Rejected(err) == [type |-> "rejected", error |-> err]

\* new Response(body, {status, headers}); a string body without a
\* Content-Type gets text/plain;charset=UTF-8
NewResponse(body, status, headers) ==
    [type    |-> "response",
     status  |-> status,
     headers |-> IF body.kind \in {"text", "json"} /\ headers["content-type"] = None
                 THEN HSet(headers, "Content-Type", "text/plain;charset=UTF-8")
                 ELSE headers,
     body    |-> body]

-----------------------------------------------------------------------------
(* createErrorResponse, handleCorsPreflight, isDashboardPath, hardenHeaders *)

createErrorResponseAlwaysDetails(err, id, environment, allowedOrigin) ==
    NewResponse(
        JsonBody([error |-> "Gateway Error",
                  message |-> "The Kubernetes API server could not be reached.",
                  requestId |-> id, details |-> err.message, stack |-> err.stack]),
        502,
        HeadersOf(<< <<"Content-Type", "application/json">>,
                     <<"Access-Control-Allow-Origin",
                       IF allowedOrigin = "" THEN "*" ELSE allowedOrigin>> >>))

createErrorResponse(err, id, environment, allowedOrigin) ==
    LET isDev     == environment = "development"
        errorBody == [error |-> "Gateway Error",
                      message |-> "The Kubernetes API server could not be reached.",
                      requestId |-> id]
        full      == IF isDev
                     THEN [error |-> errorBody.error, message |-> errorBody.message,
                           requestId |-> errorBody.requestId,
                           details |-> err.message, stack |-> err.stack]
                     ELSE errorBody
    IN  NewResponse(
            JsonBody(full),
            502,
            HeadersOf(<< <<"Content-Type", "application/json">>,
                         <<"Access-Control-Allow-Origin",
                           IF allowedOrigin = "" THEN "*" ELSE allowedOrigin>> >>))

handleCorsPreflight(allowedOrigin) ==
    NewResponse(
        NullBody,
        204,
        HeadersOf(<< <<"Access-Control-Allow-Origin", allowedOrigin>>,
                     <<"Access-Control-Allow-Methods",
                       "GET, POST, PUT, DELETE, OPTIONS, PATCH">>,
                     <<"Access-Control-Allow-Headers",
                       "Authorization, Content-Type, X-CSRF-Token, X-Request-ID, Upgrade, Connection">>,
                     <<"Access-Control-Expose-Headers", "X-Request-ID">>,
                     <<"Access-Control-Max-Age", "86400">> >>))

\* lines 524-526 with the prefix test replaced by an exact comparison
isDashboardPathExact(pathname) ==
    \/ pathname = "/kubernetes"
    \/ pathname = "/kubernetes/"
    \/ pathname = "/kubernetes/dashboard"

isDashboardPath(pathname) ==
    \/ pathname = "/kubernetes"
    \/ pathname = "/kubernetes/"
    \/ StartsWith(pathname, "/kubernetes/dashboard")

\* the sets of hardenHeaders, in the order of the code
HardeningSets(allowedOrigin, id) ==
    << <<"Access-Control-Allow-Origin", allowedOrigin>>,
       <<"Access-Control-Expose-Headers", "X-Request-ID">>,
       <<"X-Content-Type-Options", "nosniff">>,
       <<"X-Frame-Options", "DENY">>,
       <<"X-XSS-Protection", "1; mode=block">>,
       <<"Referrer-Policy", "strict-origin-when-cross-origin">>,
       <<"Strict-Transport-Security", "max-age=31536000; includeSubDomains; preload">>,
       <<"X-Request-ID", id>>,
       <<"Cache-Control", "no-store, no-cache, must-revalidate">>,
       <<"Pragma", "no-cache">> >>

RECURSIVE SetAll(_, _)
SetAll(h, pairs) ==
    IF pairs = << >> THEN h
    ELSE SetAll(HSet(h, pairs[1][1], pairs[1][2]), Tail(pairs))

\* headers.append in place of headers.set: a header the upstream sent is kept
RECURSIVE AppendAll(_, _)
AppendAll(h, pairs) ==
    IF pairs = << >> THEN h
    ELSE AppendAll(IF HGet(h, pairs[1][1]) = None
                   THEN HSet(h, pairs[1][1], pairs[1][2])
                   ELSE HSet(h, pairs[1][1], Get(HGet(h, pairs[1][1])) \o ", " \o pairs[1][2]),
                   Tail(pairs))

hardenHeadersAppend(headers, allowedOrigin, id) ==
    HDelete(HDelete(AppendAll(headers, HardeningSets(allowedOrigin, id)), "Server"),
            "X-Powered-By")

hardenHeaders(headers, allowedOrigin, id) ==
    LET resHeaders == SetAll(headers, HardeningSets(allowedOrigin, id))
    IN  HDelete(HDelete(resHeaders, "Server"), "X-Powered-By")

-----------------------------------------------------------------------------
(* The handler `fetch(request, env, _ctx)`                                  *)

environmentOf(e) == OrElse(e.ENVIRONMENT, "production")

UPSTREAM_URL(e) == OrElse(e.K8S_API_URL, DEFAULT_UPSTREAM_URL)

ALLOWED_ORIGIN(e) == OrElse(e.ALLOWED_ORIGIN, "*")

\* the events one call of log(level, message, data) writes to console.log;
\* the timestamp (wall clock) is left out
log(level, message, data, id, e) ==
    IF level = "debug" /\ environmentOf(e) # "development"
    THEN << >>
    ELSE << [level |-> level, message |-> message, requestId |-> id,
             environment |-> environmentOf(e), data |-> data] >>

NoData == [none |-> TRUE]

\* lines 422-424: the upstream URL of a request on the api-proxy route;
\* url is the parsed request URL
TargetUrl(url, e) ==
    ResolveAgainst(sanitizePath(Slice(url.pathname, 11)), ParseURL(UPSTREAM_URL(e)))
        \o url.search

\* line 434
IsWebSocketUpgrade(r) ==
    /\ HGet(r.headers, "Upgrade") # None
    /\ ToLowerCase(Get(HGet(r.headers, "Upgrade"))) = "websocket"

\* lines 440-444
RewrittenHeaders(r, e, id) ==
    HSet(HSet(HSet(r.headers, "Host", ParseURL(UPSTREAM_URL(e)).host),
              "User-Agent", "Kubernetes-API-Proxy/" \o VERSION),
         "X-Request-ID", id)

\* lines 446-448 with the credential set only when the client sent none
InjectAuthKeepClient(h, e) ==
    IF Truthy(e.K8S_BEARER_TOKEN) /\ HGet(h, "Authorization") = None
    THEN HSet(h, "Authorization", "Bearer " \o Get(e.K8S_BEARER_TOKEN))
    ELSE h

\* lines 446-448 with the client's header dropped when no credential is set
InjectAuthOrStrip(h, e) ==
    IF Truthy(e.K8S_BEARER_TOKEN)
    THEN HSet(h, "Authorization", "Bearer " \o Get(e.K8S_BEARER_TOKEN))
    ELSE HDelete(h, "Authorization")

\* lines 446-448
InjectAuth(h, e) ==
    IF Truthy(e.K8S_BEARER_TOKEN)
    THEN HSet(h, "Authorization", "Bearer " \o Get(e.K8S_BEARER_TOKEN))
    ELSE h

\* lines 440-448: the headers of the upstream request
NewHeaders(r, e, id) == InjectAuth(RewrittenHeaders(r, e, id), e)

\* lines 450-465 without the method test of line 459
ApiRequestAlwaysBody(r, e, id, targetUrl) ==
    [kind    |-> "upstream",
     url     |-> targetUrl,
     method  |-> r.method,
     headers |-> NewHeaders(r, e, id),
     body    |-> r.body]

\* lines 450-465: new Request(targetUrl, requestInit)
ApiRequest(r, e, id, targetUrl) ==
    [kind    |-> "upstream",
     url     |-> targetUrl,
     method  |-> r.method,
     headers |-> NewHeaders(r, e, id),
     body    |-> IF r.method \notin {"GET", "HEAD"} THEN r.body ELSE None]

\* line 436 with the headers of the non-upgrade path (lines 440-444)
WebSocketFetchRewritten(r, targetUrl) ==
    [kind |-> "websocket", url |-> targetUrl, method |-> r.method,
     headers |-> HSet(HSet(r.headers, "Host", ParseURL(targetUrl).host),
                      "User-Agent", "Kubernetes-API-Proxy/" \o VERSION),
     body |-> r.body]

\* line 436: fetch(targetUrl, request), the original request as the init
WebSocketFetch(r, targetUrl) ==
    [kind |-> "websocket", url |-> targetUrl, method |-> r.method,
     headers |-> r.headers, body |-> r.body]

\* line 405: fetch(request)
PassthroughFetch(r) ==
    [kind |-> "passthrough", url |-> r.url, method |-> r.method,
     headers |-> r.headers, body |-> r.body]

NoCors == [allowed |-> FALSE, matchedOrigin |-> ""]

\* the effects of an invocation, one entry per console.log call, fetch() call
\* and settlement of the handler's promise
LogEvents(lg) == [k \in 1..Len(lg) |-> [kind |-> "log", what |-> lg[k].message]]

FetchEvent(f) == [kind |-> "fetch", what |-> f.url]

Returned == [kind |-> "return", what |-> "response"]

Threw == [kind |-> "reject", what |-> "error"]

\* the handler returned: its promise resolves with resp
Settled(resp, lg, cors) ==
    [pc |-> "done", logs |-> lg, fetches |-> << >>, response |-> resp, cors |-> cors,
     events |-> LogEvents(lg) \o <<Returned>>]

\* an await whose fetch is recorded ahead of the events logged before it
AwaitingFetchFirst(where, lg, f, cors) ==
    [pc |-> where, logs |-> lg, fetches |-> <<f>>, response |-> Pending, cors |-> cors,
     events |-> <<FetchEvent(f)>> \o LogEvents(lg)]

\* an await that issues its fetch twice, as a retry would
AwaitingRetried(where, lg, f, cors) ==
    [pc |-> where, logs |-> lg, fetches |-> <<f, f>>, response |-> Pending, cors |-> cors,
     events |-> LogEvents(lg) \o <<FetchEvent(f), FetchEvent(f)>>]

\* the handler issued the fetch f and waits for it
Awaiting(where, lg, f, cors) ==
    [pc |-> where, logs |-> lg, fetches |-> <<f>>, response |-> Pending, cors |-> cors,
     events |-> LogEvents(lg) \o <<FetchEvent(f)>>]

JsonHeaders == HeadersOf(<< <<"Content-Type", "application/json">> >>)

\* the start event with the upstream request's Authorization header in it
ProxyStartDataWithAuth(r, e, url, targetUrl) ==
    [method |-> r.method, path |-> url.pathname, target |-> targetUrl,
     clientIp |-> HGet(r.headers, "CF-Connecting-IP"),
     authorization |-> HGet(NewHeaders(r, e, ""), "Authorization")]

\* lines 426-431: the data of the 'Proxying request' event
ProxyStartData(r, e, url, targetUrl) ==
    [method |-> r.method, path |-> url.pathname, target |-> targetUrl,
     clientIp |-> HGet(r.headers, "CF-Connecting-IP")]

\* lines 433-467: the proxy branch behind its start event, up to its await
Forward(r, e, id, targetUrl, start, cors) ==
    IF IsWebSocketUpgrade(r)
    THEN Awaiting("awaitWebSocket",
                  start \o log("info", "WebSocket upgrade detected", NoData, id, e),
                  WebSocketFetch(r, targetUrl), cors)
    ELSE Awaiting("awaitUpstream", start, ApiRequest(r, e, id, targetUrl), cors)

\* lines 421-467
Proxy(r, e, id, url, targetUrl, cors) ==
    Forward(r, e, id, targetUrl,
            log("info", "Proxying request", ProxyStartData(r, e, url, targetUrl), id, e),
            cors)

\* lines 387-395 with the raw ENVIRONMENT binding in place of `environment`
HealthResponseRawEnv(e, id) ==
    NewResponse(JsonBody([status |-> "ok", version |-> VERSION,
                          env |-> IF e.ENVIRONMENT = None THEN "" ELSE Get(e.ENVIRONMENT),
                          requestId |-> id]),
                200, JsonHeaders)

\* lines 386-396
HealthResponse(e, id) ==
    NewResponse(JsonBody([status |-> "ok", version |-> VERSION,
                          env |-> environmentOf(e), requestId |-> id]),
                200, JsonHeaders)

\* lines 411-418
ForbiddenResponse(id) ==
    NewResponse(JsonBody([error |-> "Forbidden", message |-> "Origin not allowed",
                          requestId |-> id]),
                403, JsonHeaders)

\* lines 355-362 with the validator's reason in every environment
ConfigErrorResponseWithReason(e, id, reason) ==
    NewResponse(JsonBody([error |-> "Configuration Error", message |-> reason,
                          requestId |-> id]),
                500, JsonHeaders)

\* lines 355-362
ConfigErrorResponse(e, id, reason) ==
    NewResponse(JsonBody([error |-> "Configuration Error",
                          message |-> IF environmentOf(e) = "development"
                                      THEN reason ELSE "Server misconfigured",
                          requestId |-> id]),
                500, JsonHeaders)

\* lines 366-370
RobotsResponse ==
    NewResponse(TextBody("User-agent: *\nDisallow: /"), 200,
                HeadersOf(<< <<"Content-Type", "text/plain">> >>))

\* line 399 with a one-segment test that forgets the prefix's name
NotUnderPrefixShort(pathname) == ~StartsWith(pathname, "/k")

\* line 399 with a test on whole path segments
NotUnderPrefixWholeSegment(pathname) ==
    ~(pathname = "/kubernetes" \/ StartsWith(pathname, "/kubernetes/"))

\* line 399
NotUnderPrefix(pathname) == ~StartsWith(pathname, "/kubernetes")

\* line 409 without the test that the Origin header is there
StrictOriginRejectsAbsent(allowedOrigin, requestOrigin, cors) ==
    /\ allowedOrigin # "*"
    /\ ~cors.allowed

\* line 409
StrictOriginRejects(allowedOrigin, requestOrigin, cors) ==
    /\ allowedOrigin # "*"
    /\ Truthy(requestOrigin)
    /\ ~cors.allowed

\* line 378 without the rejection
PreflightRejectsNever(allowedOrigin, cors) == FALSE

\* line 378
PreflightRejects(allowedOrigin, cors) == ~cors.allowed /\ allowedOrigin # "*"

\* lines 377-383
Preflight(e, id, requestOrigin, cors) ==
    IF PreflightRejects(ALLOWED_ORIGIN(e), cors)
    THEN Settled(NewResponse(NullBody, 403, EmptyHeaders),
                 log("warn", "CORS preflight rejected",
                     [origin |-> requestOrigin, reason |-> "Origin not allowed"], id, e),
                 cors)
    ELSE Settled(handleCorsPreflight(IF cors.matchedOrigin # "" THEN cors.matchedOrigin
                                     ELSE ALLOWED_ORIGIN(e)),
                 << >>, cors)

\* a router that applies the strict-origin test of line 409 right behind the
\* preflight branch, ahead of the health, 404 and passthrough routes
RouteGateFirst(r, e, id, url, requestOrigin, cors) ==
    IF r.method = "OPTIONS"
    THEN Preflight(e, id, requestOrigin, cors)
    ELSE IF StrictOriginRejects(ALLOWED_ORIGIN(e), requestOrigin, cors)
    THEN Settled(ForbiddenResponse(id),
                 log("warn", "Request rejected - invalid origin",
                     [origin |-> requestOrigin], id, e),
                 cors)
    ELSE IF url.pathname = "/kubernetes/proxy-health"
    THEN Settled(HealthResponse(e, id), << >>, cors)
    ELSE IF NotUnderPrefix(url.pathname)
    THEN Settled(NewResponse(TextBody("Not Found"), 404, EmptyHeaders), << >>, cors)
    ELSE IF isDashboardPath(url.pathname)
    THEN Awaiting("awaitPassthrough", << >>, PassthroughFetch(r), cors)
    ELSE Proxy(r, e, id, url, TargetUrl(url, e), cors)

\* lines 373-467: the handler behind the robots.txt route
Route(r, e, id, url, requestOrigin, cors) ==
    IF r.method = "OPTIONS"
    THEN Preflight(e, id, requestOrigin, cors)
    ELSE IF url.pathname = "/kubernetes/proxy-health"
    THEN Settled(HealthResponse(e, id), << >>, cors)
    ELSE IF NotUnderPrefix(url.pathname)
    THEN Settled(NewResponse(TextBody("Not Found"), 404, EmptyHeaders), << >>, cors)
    ELSE IF isDashboardPath(url.pathname)
    THEN Awaiting("awaitPassthrough", << >>, PassthroughFetch(r), cors)
    ELSE IF StrictOriginRejects(ALLOWED_ORIGIN(e), requestOrigin, cors)
    THEN Settled(ForbiddenResponse(id),
                 log("warn", "Request rejected - invalid origin",
                     [origin |-> requestOrigin], id, e),
                 cors)
    ELSE Proxy(r, e, id, url, TargetUrl(url, e), cors)

\* lines 346-375: configuration validation and robots.txt
Configure(r, e, id, url, urlValidation) ==
    IF ~urlValidation.valid
    THEN Settled(ConfigErrorResponse(e, id, urlValidation.error),
                 log("error", "Invalid K8S_API_URL configuration",
                     [error |-> urlValidation.error], id, e),
                 NoCors)
    ELSE IF url.pathname = "/robots.txt"
    THEN Settled(RobotsResponse, << >>, NoCors)
    ELSE Route(r, e, id, url, HGet(r.headers, "Origin"),
               validateOrigin(HGet(r.headers, "Origin"), ALLOWED_ORIGIN(e)))

\* lines 320-467: the handler from its entry to its first await or return
Handle(r, e, id) ==
    Configure(r, e, id, ParseURL(r.url), validateApiUrl(Some(UPSTREAM_URL(e))))

-----------------------------------------------------------------------------
(* Inputs *)

NoRequest == [url |-> "", method |-> "", headers |-> EmptyHeaders, body |-> None]

NoEnv == [K8S_API_URL |-> None, ALLOWED_ORIGIN |-> None, ENVIRONMENT |-> None,
          K8S_BEARER_TOKEN |-> None]

NoOutcome == [kind |-> "none"]

GatewayOrigin == "https://gw.example.com"

\* the headers every modelled client sends
BaseRequestHeaders ==
    HeadersOf(<< <<"Host", "gw.example.com">>, <<"User-Agent", "client/1.0">>,
                 <<"CF-Connecting-IP", "203.0.113.5">> >>)

WithOptional(h, name, o) == IF o = None THEN h ELSE HSet(h, name, Get(o))

\* a Request: GET and HEAD requests have no body
MkRequest(path, method, origin, upgrade, auth) ==
    [url     |-> GatewayOrigin \o path,
     method  |-> method,
     headers |-> WithOptional(WithOptional(WithOptional(BaseRequestHeaders,
                     "Origin", origin), "Upgrade", upgrade), "Authorization", auth),
     body    |-> IF method \in {"GET", "HEAD", "OPTIONS"} THEN None ELSE Some("request-body")]

MkEnv(apiUrl, allowed, mode, token) ==
    [K8S_API_URL |-> apiUrl, ALLOWED_ORIGIN |-> allowed, ENVIRONMENT |-> mode,
     K8S_BEARER_TOKEN |-> token]

RequestIds == {"uuid-1", "uuid-2"}

Errors ==
    {[message |-> "fetch failed", stack |-> "TypeError: fetch failed\n    at fetch"],
     [message |-> "The operation was aborted", stack |-> "AbortError\n    at fetch"]}

Durations == {0, 42}

\* the most headers of the hardened set an upstream response carries
MaxUpstreamHeaders == 1

\* names an upstream response may set: those hardenHeaders writes or deletes
UpstreamHeaderNames ==
    {"access-control-allow-origin", "access-control-expose-headers",
     "x-content-type-options", "x-frame-options", "x-xss-protection",
     "referrer-policy", "strict-transport-security", "x-request-id",
     "cache-control", "pragma", "server", "x-powered-by", "content-type"}

UpstreamHeaders(S) == [n \in HeaderNames |-> IF n \in S THEN Some("upstream") ELSE None]

UpstreamStatuses == {200, 404}

UpstreamResponses ==
    {[type |-> "response", status |-> st, headers |-> UpstreamHeaders(S),
      body |-> StreamBody("upstream")] :
        st \in UpstreamStatuses,
        S \in {T \in SUBSET UpstreamHeaderNames : Cardinality(T) <= MaxUpstreamHeaders}}

\* what the serving origin or an upgraded upstream answers
PlainResponses ==
    {[type |-> "response", status |-> st,
      headers |-> UpstreamHeaders(S), body |-> StreamBody("origin")] :
        st \in {101, 200}, S \in {{}, {"server"}}}

-----------------------------------------------------------------------------
(* Actions: one handler invocation per slot *)

Slots == DOMAIN pc

\* a handler that keeps the request id in a variable of the module: an
\* invocation that starts while another one is in flight works with the id
\* that one stored
DispatchSharedId(i, Rs, Es, Ids) ==
    /\ pc[i] = "idle"
    /\ \E r \in Rs, e \in Es, id \in Ids :
         LET others == {requestId[j] : j \in {k \in Slots : k # i /\ pc[k] # "idle"}}
             shared == IF others = {} THEN id ELSE CHOOSE x \in others : TRUE
             h == Handle(r, e, shared)
         IN  /\ req' = [req EXCEPT ![i] = r]
             /\ env' = [env EXCEPT ![i] = e]
             /\ requestId' = [requestId EXCEPT ![i] = id]
             /\ pc' = [pc EXCEPT ![i] = h.pc]
             /\ logs' = [logs EXCEPT ![i] = h.logs]
             /\ fetches' = [fetches EXCEPT ![i] = h.fetches]
             /\ response' = [response EXCEPT ![i] = h.response]
             /\ corsValidation' = [corsValidation EXCEPT ![i] = h.cors]
             /\ events' = [events EXCEPT ![i] = h.events]
    /\ UNCHANGED <<outcome, arg, ret>>

\* the runtime calls fetch(request, env, ctx): lines 319-467
Dispatch(i, Rs, Es, Ids) ==
    /\ pc[i] = "idle"
    /\ \E r \in Rs, e \in Es, id \in Ids :
         LET h == Handle(r, e, id)
         IN  /\ req' = [req EXCEPT ![i] = r]
             /\ env' = [env EXCEPT ![i] = e]
             /\ requestId' = [requestId EXCEPT ![i] = id]
             /\ pc' = [pc EXCEPT ![i] = h.pc]
             /\ logs' = [logs EXCEPT ![i] = h.logs]
             /\ fetches' = [fetches EXCEPT ![i] = h.fetches]
             /\ response' = [response EXCEPT ![i] = h.response]
             /\ corsValidation' = [corsValidation EXCEPT ![i] = h.cors]
             /\ events' = [events EXCEPT ![i] = h.events]
    /\ UNCHANGED <<outcome, arg, ret>>

\* line 470
EffectiveOrigin(cors, e) ==
    IF cors.matchedOrigin # "" THEN cors.matchedOrigin
    ELSE IF ALLOWED_ORIGIN(e) = "*" THEN "*" ELSE ""

\* lines 476-480 with an upstream status outside 2xx turned into a 502
ProxiedResponseOkOnly(u, resHeaders) ==
    [type |-> "response",
     status |-> IF u.status \in 200..299 THEN u.status ELSE 502,
     headers |-> resHeaders, body |-> u.body]

\* lines 476-480: new Response(response.body, {status, statusText, headers})
ProxiedResponse(u, resHeaders) ==
    [type |-> "response", status |-> u.status, headers |-> resHeaders, body |-> u.body]

\* lines 467-480: `await fetch(apiRequest)` resolves
UpstreamResponds(i, Us) ==
    /\ pc[i] = "awaitUpstream"
    /\ \E u \in Us, d \in Durations :
         LET resHeaders == hardenHeaders(u.headers, EffectiveOrigin(corsValidation[i], env[i]),
                                         requestId[i])
         IN  /\ outcome' = [outcome EXCEPT ![i] =
                               [kind |-> "resolved", response |-> u, durationMs |-> d]]
             /\ logs' = [logs EXCEPT ![i] = @ \o
                            log("info", "Upstream response",
                                [status |-> u.status, durationMs |-> d],
                                requestId[i], env[i])]
             /\ response' = [response EXCEPT ![i] = ProxiedResponse(u, resHeaders)]
    /\ events' = [events EXCEPT ![i] =
                     @ \o <<[kind |-> "log", what |-> "Upstream response"], Returned>>]
    /\ pc' = [pc EXCEPT ![i] = "done"]
    /\ UNCHANGED <<req, env, requestId, fetches, corsValidation, arg, ret>>

\* lines 482-496: an awaited fetch (plain or upgrade) rejects and is caught
UpstreamThrows(i) ==
    /\ pc[i] \in {"awaitUpstream", "awaitWebSocket"}
    /\ \E err \in Errors, d \in Durations :
         LET environment == environmentOf(env[i])
             data == IF environment = "development"
                     THEN [error |-> err.message, stack |-> err.stack, durationMs |-> d]
                     ELSE [error |-> err.message, durationMs |-> d]
         IN  /\ outcome' = [outcome EXCEPT ![i] =
                               [kind |-> "rejected", error |-> err, durationMs |-> d]]
             /\ logs' = [logs EXCEPT ![i] = @ \o
                            log("error", "Worker exception", data, requestId[i], env[i])]
             /\ response' = [response EXCEPT ![i] =
                                createErrorResponse(err, requestId[i], environment,
                                                    OrElse(env[i].ALLOWED_ORIGIN, "*"))]
    /\ events' = [events EXCEPT ![i] =
                     @ \o <<[kind |-> "log", what |-> "Worker exception"], Returned>>]
    /\ pc' = [pc EXCEPT ![i] = "done"]
    /\ UNCHANGED <<req, env, requestId, fetches, corsValidation, arg, ret>>

\* lines 434-437: `return await fetch(targetUrl, request)` resolves
WebSocketResponds(i, Ps) ==
    /\ pc[i] = "awaitWebSocket"
    /\ \E u \in Ps :
         /\ outcome' = [outcome EXCEPT ![i] =
                           [kind |-> "resolved", response |-> u, durationMs |-> 0]]
         /\ response' = [response EXCEPT ![i] = u]
    /\ events' = [events EXCEPT ![i] = @ \o <<Returned>>]
    /\ pc' = [pc EXCEPT ![i] = "done"]
    /\ UNCHANGED <<req, env, requestId, logs, fetches, corsValidation, arg, ret>>

\* lines 404-406: the promise of `return fetch(request)` resolves
PassthroughResponds(i, Ps) ==
    /\ pc[i] = "awaitPassthrough"
    /\ \E u \in Ps :
         /\ outcome' = [outcome EXCEPT ![i] =
                           [kind |-> "resolved", response |-> u, durationMs |-> 0]]
         /\ response' = [response EXCEPT ![i] = u]
    /\ events' = [events EXCEPT ![i] = @ \o <<Returned>>]
    /\ pc' = [pc EXCEPT ![i] = "done"]
    /\ UNCHANGED <<req, env, requestId, logs, fetches, corsValidation, arg, ret>>

\* the passthrough fetch awaited inside the try: its rejection is caught,
\* logged and answered with the 502 envelope
PassthroughThrowsCaught(i) ==
    /\ pc[i] = "awaitPassthrough"
    /\ \E err \in Errors :
         /\ outcome' = [outcome EXCEPT ![i] =
                           [kind |-> "rejected", error |-> err, durationMs |-> 0]]
         /\ logs' = [logs EXCEPT ![i] = @ \o
                        log("error", "Worker exception",
                            [error |-> err.message, durationMs |-> 0],
                            requestId[i], env[i])]
         /\ response' = [response EXCEPT ![i] =
                            createErrorResponse(err, requestId[i], environmentOf(env[i]),
                                                OrElse(env[i].ALLOWED_ORIGIN, "*"))]
    /\ events' = [events EXCEPT ![i] =
                     @ \o <<[kind |-> "log", what |-> "Worker exception"], Returned>>]
    /\ pc' = [pc EXCEPT ![i] = "done"]
    /\ UNCHANGED <<req, env, requestId, fetches, corsValidation, arg, ret>>

\* lines 404-406: that promise rejects; it was not awaited inside the try, so
\* the handler's promise rejects with the same error
PassthroughThrows(i) ==
    /\ pc[i] = "awaitPassthrough"
    /\ \E err \in Errors :
         /\ outcome' = [outcome EXCEPT ![i] =
                           [kind |-> "rejected", error |-> err, durationMs |-> 0]]
         /\ response' = [response EXCEPT ![i] = Rejected(err)]
    /\ events' = [events EXCEPT ![i] = @ \o <<Threw>>]
    /\ pc' = [pc EXCEPT ![i] = "done"]
    /\ UNCHANGED <<req, env, requestId, logs, fetches, corsValidation, arg, ret>>

InitSlots(S) ==
    /\ pc = [i \in S |-> "idle"]
    /\ req = [i \in S |-> NoRequest]
    /\ env = [i \in S |-> NoEnv]
    /\ requestId = [i \in S |-> ""]
    /\ logs = [i \in S |-> << >>]
    /\ fetches = [i \in S |-> << >>]
    /\ response = [i \in S |-> Pending]
    /\ outcome = [i \in S |-> NoOutcome]
    /\ corsValidation = [i \in S |-> NoCors]
    /\ events = [i \in S |-> << >>]

-----------------------------------------------------------------------------
(* Spec: one invocation, every route, every header the handler reads *)

Main == {"r1"}

MainPaths ==
    {"/robots.txt", "/other/path", "/kubernetes/dashboard", "/kubernetes/proxy-health",
     "/kubernetes/api/v1/pods?limit=5"}

Methods == {"GET", "POST", "OPTIONS"}

Origins ==
    {None, Some(""), Some("https://App.Example.com"), Some("https://x.trusted.test"),
     Some("https://evil.test")}

Upgrades == {None, Some("WebSocket")}

ClientAuths == {None, Some("Bearer client-token")}

Requests ==
    {MkRequest(p, m, o, u, a) :
        p \in MainPaths, m \in Methods, o \in Origins, u \in Upgrades, a \in ClientAuths}

ApiUrls == {None, Some("http://k8s.example.com")}

AllowedOrigins == {None, Some("https://app.example.com, *.trusted.test")}

Modes == {None, Some("development")}

Tokens == {None, Some("secret-token")}

Envs ==
    {MkEnv(u, a, m, t) : u \in ApiUrls, a \in AllowedOrigins, m \in Modes, t \in Tokens}

Init == InitSlots(Main) /\ arg = "" /\ ret = None

Next ==
    \/ \E i \in Slots : Dispatch(i, Requests, Envs, RequestIds)
    \/ \E i \in Slots : UpstreamResponds(i, UpstreamResponses)
    \/ \E i \in Slots : UpstreamThrows(i)
    \/ \E i \in Slots : WebSocketResponds(i, PlainResponses)
    \/ \E i \in Slots : PassthroughResponds(i, PlainResponses)
    \/ \E i \in Slots : PassthroughThrows(i)

Spec == Init /\ [][Next]_vars

-----------------------------------------------------------------------------
(* Properties of the handler under Spec *)

\* the invocation issued an outbound fetch of this kind
Took(i, kind) == fetches[i] # << >> /\ fetches[i][1].kind = kind

ValidConfig(i) == validateApiUrl(Some(UPSTREAM_URL(env[i]))).valid

PathOf(i) == ParseURL(req[i].url).pathname

OriginOf(i) == req[i].headers["origin"]

TokenOf(i) == env[i].K8S_BEARER_TOKEN

\* the path is under the prefix and is neither the health nor a passthrough path
ApiProxyRoute(i) ==
    /\ StartsWith(PathOf(i), "/kubernetes")
    /\ PathOf(i) # "/kubernetes/proxy-health"
    /\ ~isDashboardPath(PathOf(i))

\* C1: on the api-proxy route without upgrade, when the upstream fetch
\* succeeds, the response carries the fixed hardening headers and neither
\* Server nor X-Powered-By, whatever the upstream set.
C1_HardenedHeaders ==
    \A i \in Slots :
        (pc[i] = "done" /\ Took(i, "upstream") /\ outcome[i].kind = "resolved") =>
            LET h == response[i].headers
            IN  /\ h["x-frame-options"] = Some("DENY")
                /\ h["x-content-type-options"] = Some("nosniff")
                /\ h["x-xss-protection"] = Some("1; mode=block")
                /\ h["referrer-policy"] = Some("strict-origin-when-cross-origin")
                /\ h["strict-transport-security"] =
                       Some("max-age=31536000; includeSubDomains; preload")
                /\ h["cache-control"] = Some("no-store, no-cache, must-revalidate")
                /\ h["pragma"] = Some("no-cache")
                /\ h["server"] = None
                /\ h["x-powered-by"] = None

\* a proxied response whose upstream set X-Frame-Options itself
C1_Witness ==
    \E i \in Slots :
        /\ pc[i] = "done" /\ Took(i, "upstream") /\ outcome[i].kind = "resolved"
        /\ outcome[i].response.headers["x-frame-options"] = Some("upstream")
        /\ response[i].type = "response"

ForbiddenJson(i) ==
    /\ response[i].type = "response"
    /\ response[i].status = 403
    /\ response[i].body.kind = "json"
    /\ DOMAIN response[i].body.json = {"error", "message", "requestId"}
    /\ response[i].body.json.error = "Forbidden"
    /\ response[i].body.json.requestId = requestId[i]

StrictNonPreflight(i) ==
    /\ pc[i] # "idle"
    /\ ValidConfig(i)
    /\ ALLOWED_ORIGIN(env[i]) # "*"
    /\ req[i].method # "OPTIONS"
    /\ ApiProxyRoute(i)

ProceedsUpstream(i) == Took(i, "upstream") \/ Took(i, "websocket")

\* C2 as stated: under a non-wildcard policy a non-OPTIONS request on the
\* api-proxy route whose Origin header is present and not allowed gets the
\* 403 JSON and no fetch; one without Origin header proceeds.
C2_Original ==
    \A i \in Slots :
        StrictNonPreflight(i) =>
            /\ (OriginOf(i) # None /\ ~corsValidation[i].allowed) =>
                   (ForbiddenJson(i) /\ fetches[i] = << >>)
            /\ OriginOf(i) = None => ProceedsUpstream(i)

\* C2 amended: the 403 JSON and no fetch when the Origin header is present
\* with a non-empty value and not allowed; a request whose Origin header is
\* absent or empty proceeds to the upstream.
C2_StrictGate ==
    \A i \in Slots :
        StrictNonPreflight(i) =>
            /\ (Truthy(OriginOf(i)) /\ ~corsValidation[i].allowed) =>
                   (ForbiddenJson(i) /\ fetches[i] = << >>)
            /\ ~Truthy(OriginOf(i)) => ProceedsUpstream(i)

\* a POST from a foreign origin was refused under the strict policy
C2_Witness ==
    \E i \in Slots :
        /\ StrictNonPreflight(i)
        /\ req[i].method = "POST"
        /\ OriginOf(i) = Some("https://evil.test")
        /\ response[i].type = "response" /\ response[i].status = 403

CorsNames ==
    {"access-control-allow-origin", "access-control-allow-methods",
     "access-control-allow-headers", "access-control-expose-headers",
     "access-control-max-age"}

\* C3: an OPTIONS request (valid configuration, not /robots.txt) is answered
\* without outbound fetch: 403, no body, no CORS headers when the policy is
\* not wildcard and the origin is not allowed; otherwise 204 with the echo
\* value and the fixed preflight headers.
C3_Preflight ==
    \A i \in Slots :
        (pc[i] # "idle" /\ req[i].method = "OPTIONS" /\ ValidConfig(i)
            /\ PathOf(i) # "/robots.txt") =>
            /\ pc[i] = "done"
            /\ fetches[i] = << >>
            /\ response[i].type = "response"
            /\ IF ALLOWED_ORIGIN(env[i]) # "*" /\ ~corsValidation[i].allowed
               THEN /\ response[i].status = 403
                    /\ response[i].body = NullBody
                    /\ \A n \in CorsNames : response[i].headers[n] = None
               ELSE /\ response[i].status = 204
                    /\ response[i].headers["access-control-allow-origin"] =
                           IF ALLOWED_ORIGIN(env[i]) = "*" THEN Some("*") ELSE OriginOf(i)
                    /\ response[i].headers["access-control-allow-methods"] =
                           Some("GET, POST, PUT, DELETE, OPTIONS, PATCH")
                    /\ response[i].headers["access-control-allow-headers"] =
                           Some("Authorization, Content-Type, X-CSRF-Token, X-Request-ID, Upgrade, Connection")
                    /\ response[i].headers["access-control-expose-headers"] =
                           Some("X-Request-ID")
                    /\ response[i].headers["access-control-max-age"] = Some("86400")

\* a preflight without Origin header was refused under the strict policy,
\* on a path that would otherwise be proxied
C3_Witness ==
    \E i \in Slots :
        /\ pc[i] = "done" /\ req[i].method = "OPTIONS" /\ ValidConfig(i)
        /\ ApiProxyRoute(i)
        /\ ALLOWED_ORIGIN(env[i]) # "*"
        /\ OriginOf(i) = None
        /\ response[i].status = 403

IsDevelopment(i) == env[i].ENVIRONMENT = Some("development")

\* C4: when the upstream fetch throws on the api-proxy route, the response is
\* 502 with error "Gateway Error" and the request's id; details and stack
\* are there exactly in development mode.
C4_GatewayError ==
    \A i \in Slots :
        (pc[i] = "done" /\ ProceedsUpstream(i) /\ outcome[i].kind = "rejected") =>
            /\ response[i].type = "response"
            /\ response[i].status = 502
            /\ response[i].body.kind = "json"
            /\ response[i].body.json.error = "Gateway Error"
            /\ response[i].body.json.requestId = requestId[i]
            /\ ("details" \in DOMAIN response[i].body.json) <=> IsDevelopment(i)
            /\ ("stack" \in DOMAIN response[i].body.json) <=> IsDevelopment(i)

\* the upstream fetch of a plain proxied request threw in development mode
C4_Witness ==
    \E i \in Slots :
        /\ pc[i] = "done" /\ Took(i, "upstream") /\ outcome[i].kind = "rejected"
        /\ IsDevelopment(i)
        /\ response[i].status = 502

BearerOf(i) == Some("Bearer " \o Get(TokenOf(i)))

\* C5 as stated: with a credential configured, every request sent to the
\* upstream carries Authorization: Bearer <credential>.
C5_Original ==
    \A i \in Slots : \A k \in DOMAIN fetches[i] :
        (fetches[i][k].kind \in {"upstream", "websocket"} /\ Truthy(TokenOf(i))) =>
            fetches[i][k].headers["authorization"] = BearerOf(i)

\* C5 amended: with a credential configured, every upstream request the
\* gateway builds (the non-upgrade path) carries Authorization: Bearer
\* <credential>, whatever Authorization the client sent.
C5_BearerOverrides ==
    \A i \in Slots : \A k \in DOMAIN fetches[i] :
        (fetches[i][k].kind = "upstream" /\ Truthy(TokenOf(i))) =>
            fetches[i][k].headers["authorization"] = BearerOf(i)

\* a client that sent its own Authorization was proxied with a credential set
C5_Witness ==
    \E i \in Slots :
        /\ Took(i, "upstream")
        /\ Truthy(TokenOf(i))
        /\ req[i].headers["authorization"] = Some("Bearer client-token")

\* C6 as stated: the built upstream request has an Authorization header if
\* and only if a credential is configured.
C6_Original ==
    \A i \in Slots : \A k \in DOMAIN fetches[i] :
        fetches[i][k].kind = "upstream" =>
            (fetches[i][k].headers["authorization"] # None <=> Truthy(TokenOf(i)))

\* C6 amended: the built upstream request's Authorization is the bearer
\* credential when one is configured, and otherwise the client's own
\* Authorization header, absent exactly when the client sent none.
C6_AuthorizationSource ==
    \A i \in Slots : \A k \in DOMAIN fetches[i] :
        fetches[i][k].kind = "upstream" =>
            fetches[i][k].headers["authorization"] =
                IF Truthy(TokenOf(i)) THEN BearerOf(i)
                ELSE req[i].headers["authorization"]

\* a client that sent its own Authorization was proxied with no credential set
C6_Witness ==
    \E i \in Slots :
        /\ Took(i, "upstream")
        /\ ~Truthy(TokenOf(i))
        /\ req[i].headers["authorization"] = Some("Bearer client-token")

-----------------------------------------------------------------------------
(* SpecSanitize: sanitizePath applied, and applied again, to every string   *)
(* over the characters it treats specially                                  *)

MaxPathLen == 5

PathAlphabet == {".", "/", "a"}

RECURSIVE StringsUpTo(_)
StringsUpTo(n) ==
    IF n = 0 THEN {""}
    ELSE StringsUpTo(n - 1) \cup {x \o c : x \in StringsUpTo(n - 1), c \in PathAlphabet}

InitSanitize == InitSlots({}) /\ arg \in StringsUpTo(MaxPathLen) /\ ret = << >>

\* ret[1] = sanitizePath(arg), ret[2] = sanitizePath(ret[1])
ApplySanitize ==
    /\ Len(ret) < 2
    /\ ret' = Append(ret, sanitizePath(IF ret = << >> THEN arg ELSE ret[Len(ret)]))
    /\ UNCHANGED <<hvars, arg>>

NextSanitize == ApplySanitize

SpecSanitize == InitSanitize /\ [][NextSanitize]_vars

\* C10: sanitizePath is idempotent, and its output contains neither ".."
\* nor "//".
C10_SanitizeIdempotent ==
    /\ Len(ret) >= 1 => ~Contains(ret[1], "..") /\ ~Contains(ret[1], "//")
    /\ Len(ret) = 2 => ret[2] = ret[1]

\* a path with a traversal that opens a double slash has been sanitized twice
C10_Witness ==
    /\ arg = "a..//"
    /\ Len(ret) = 2
    /\ ret[1] = "/a/"

-----------------------------------------------------------------------------
(* SpecRoute: one invocation over generated request paths *)

MaxPieces == 3

PathHeads == {"", "/kubernetes", "/robots.txt", "/kube"}

PathPieces == {"/", ".", "..", "dashboard", "proxy-health", "X"}

RECURSIVE Tails(_)
Tails(n) ==
    IF n = 0 THEN {""}
    ELSE Tails(n - 1) \cup {t \o x : t \in Tails(n - 1), x \in PathPieces}

\* a request target begins with "/"
RoutePaths == {p \in {h \o t : h \in PathHeads, t \in Tails(MaxPieces)} : StartsWith(p, "/")}

RouteRequests == {MkRequest(p, m, None, None, None) : p \in RoutePaths, m \in {"GET", "OPTIONS"}}

RouteEnvs == {MkEnv(u, None, None, None) : u \in ApiUrls}

RouteResponses ==
    {[type |-> "response", status |-> 200, headers |-> UpstreamHeaders({}),
      body |-> StreamBody("upstream")]}

NextRoute ==
    \/ \E i \in Slots : Dispatch(i, RouteRequests, RouteEnvs, {"uuid-1"})
    \/ \E i \in Slots : UpstreamResponds(i, RouteResponses)
    \/ \E i \in Slots : UpstreamThrows(i)
    \/ \E i \in Slots : PassthroughResponds(i, RouteResponses)
    \/ \E i \in Slots : PassthroughThrows(i)

SpecRoute == Init /\ [][NextRoute]_vars

C9_ReservedNeverProxied ==
    \A i \in Slots : \A k \in DOMAIN fetches[i] :
        fetches[i][k].kind \in {"upstream", "websocket"} =>
            /\ ParseURL(fetches[i][k].url).pathname # "/proxy-health"
            /\ ~StartsWith(ParseURL(fetches[i][k].url).pathname, "/dashboard")

-----------------------------------------------------------------------------
(* SpecPair: two invocations side by side *)

Pair == {"r1", "r2"}

PairRequests ==
    {MkRequest(p, "POST", Some("https://evil.test"), u, Some("Bearer client-token")) :
        p \in {"/kubernetes/api/v1/pods", "/kubernetes/dashboard"}, u \in Upgrades}

PairTokens == {None, Some("secret-token"), Some("other-token")}

PairEnvs == {MkEnv(None, None, m, t) : m \in Modes, t \in PairTokens}

PairResponses ==
    {[type |-> "response", status |-> 200, headers |-> UpstreamHeaders(S),
      body |-> StreamBody("upstream")] : S \in {{}, {"server"}}}

InitPair == InitSlots(Pair) /\ arg = "" /\ ret = None

NextPair ==
    \/ \E i \in Slots : Dispatch(i, PairRequests, PairEnvs, {"uuid-1"})
    \/ \E i \in Slots : UpstreamResponds(i, PairResponses)
    \/ \E i \in Slots : UpstreamThrows(i)
    \/ \E i \in Slots : WebSocketResponds(i, PairResponses)
    \/ \E i \in Slots : PassthroughResponds(i, PairResponses)
    \/ \E i \in Slots : PassthroughThrows(i)

SpecPair == InitPair /\ [][NextPair]_vars

\* the two invocations got the same request, id and fetch outcome, and their
\* env bindings differ at most in the bearer credential
SameButCredential(i, j) ==
    /\ pc[i] = "done" /\ pc[j] = "done"
    /\ req[i] = req[j]
    /\ requestId[i] = requestId[j]
    /\ outcome[i] = outcome[j]
    /\ [env[i] EXCEPT !.K8S_BEARER_TOKEN = None] = [env[j] EXCEPT !.K8S_BEARER_TOKEN = None]

\* C7: two runs of the same request that differ only in the configured
\* credential emit the same log events and return the same response: the
\* credential is in no log event and in no response.
C7_CredentialNeverLeaks ==
    \A i \in Slots : \A j \in Slots :
        SameButCredential(i, j) => (logs[i] = logs[j] /\ response[i] = response[j])

\* two proxied runs with different credentials whose upstream fetch threw in
\* development mode
C7_Witness ==
    /\ SameButCredential("r1", "r2")
    /\ env["r1"].K8S_BEARER_TOKEN = Some("secret-token")
    /\ env["r2"].K8S_BEARER_TOKEN = Some("other-token")
    /\ env["r1"].ENVIRONMENT = Some("development")
    /\ Took("r1", "upstream")
    /\ outcome["r1"].kind = "rejected"
    /\ fetches["r1"] # fetches["r2"]

-----------------------------------------------------------------------------
(* Further properties of the handler under Spec *)

AllowOriginOf(i) == response[i].headers["access-control-allow-origin"]

\* C11: under a non-wildcard origin policy every response that carries
\* Access-Control-Allow-Origin has the request's matched origin (or the empty
\* string when nothing matched) as its value, never the configured list; the
\* value is "*" only under the wildcard policy.
C11_EchoOrigin ==
    \A i \in Slots :
        (response[i].type = "response" /\ AllowOriginOf(i) # None) =>
            /\ ALLOWED_ORIGIN(env[i]) # "*" =>
                  Get(AllowOriginOf(i)) =
                      validateOrigin(OriginOf(i), ALLOWED_ORIGIN(env[i])).matchedOrigin
            /\ Get(AllowOriginOf(i)) = "*" => ALLOWED_ORIGIN(env[i]) = "*"

\* the strict-policy test of line 409 lets the request through
OriginAdmitted(i) ==
    \/ ALLOWED_ORIGIN(env[i]) = "*"
    \/ ~Truthy(OriginOf(i))
    \/ validateOrigin(OriginOf(i), ALLOWED_ORIGIN(env[i])).allowed

\* the request is on the api-proxy route and reaches the forwarding step
ReachesForwarder(i) ==
    /\ pc[i] # "idle"
    /\ req[i].method # "OPTIONS"
    /\ ApiProxyRoute(i)
    /\ ValidConfig(i)
    /\ OriginAdmitted(i)

UpgradeOf(i) == req[i].headers["upgrade"]

\* C15: a request that reaches the forwarding step with an Upgrade header
\* equal to 'websocket' in any case causes exactly one fetch, to the target
\* URL with the original request's method, headers and body (no Host,
\* User-Agent, X-Request-ID or Authorization rewriting), and the response the
\* upstream gives is returned as it is, without hardening.
C15_WebSocketBypass ==
    \A i \in Slots :
        (UpgradeOf(i) # None /\ ToLowerCase(Get(UpgradeOf(i))) = "websocket"
            /\ ReachesForwarder(i)) =>
            /\ Len(fetches[i]) = 1
            /\ fetches[i][1].kind = "websocket"
            /\ fetches[i][1].url = TargetUrl(ParseURL(req[i].url), env[i])
            /\ fetches[i][1].method = req[i].method
            /\ fetches[i][1].headers = req[i].headers
            /\ fetches[i][1].body = req[i].body
            /\ outcome[i].kind = "resolved" => response[i] = outcome[i].response

\* an upgrade request with its own Authorization, a credential configured
\* and an upstream that answered with a Server header
C15_Witness ==
    \E i \in Slots :
        /\ pc[i] = "done"
        /\ ReachesForwarder(i)
        /\ UpgradeOf(i) = Some("WebSocket")
        /\ req[i].headers["authorization"] = Some("Bearer client-token")
        /\ Truthy(TokenOf(i))
        /\ outcome[i].kind = "resolved"
        /\ response[i].status = 101
        /\ response[i].headers["server"] = Some("upstream")
        /\ response[i].headers["x-frame-options"] = None

\* C20: a GET for exactly /kubernetes/proxy-health under a valid
\* configuration is answered 200 with the JSON body {status: "ok", version,
\* env, requestId}, env being the effective environment mode and requestId
\* the request's id, and no fetch is issued.
C20_Health ==
    \A i \in Slots :
        (pc[i] # "idle" /\ req[i].method = "GET"
            /\ PathOf(i) = "/kubernetes/proxy-health" /\ ValidConfig(i)) =>
            /\ pc[i] = "done"
            /\ fetches[i] = << >>
            /\ response[i].type = "response"
            /\ response[i].status = 200
            /\ response[i].headers["content-type"] = Some("application/json")
            /\ response[i].body =
                   JsonBody([status |-> "ok", version |-> "1.0.2",
                             env |-> IF IsDevelopment(i) THEN "development" ELSE "production",
                             requestId |-> requestId[i]])

\* a health check from a foreign origin under a strict policy, with no
\* ENVIRONMENT binding
C20_Witness ==
    \E i \in Slots :
        /\ pc[i] = "done"
        /\ ValidConfig(i)
        /\ req[i].method = "GET"
        /\ PathOf(i) = "/kubernetes/proxy-health"
        /\ OriginOf(i) = Some("https://evil.test")
        /\ ALLOWED_ORIGIN(env[i]) # "*"
        /\ env[i].ENVIRONMENT = None
        /\ response[i].status = 200
        /\ response[i].body.json.env = "production"

-----------------------------------------------------------------------------
(* SpecConfig: one invocation over valid and invalid upstream URLs *)

ConfigUrls ==
    {None, Some("http://k8s.example.com"), Some("https://localhost:6443"),
     Some("not-a-url"), Some("https://10.0.0.8"), Some("https://k8s.example.com"),
     Some("https://k8s.example.com/clusters/c1")}

ConfigRequests ==
    {MkRequest(p, m, o, u, None) :
        p \in MainPaths, m \in Methods, o \in {None, Some("https://evil.test")},
        u \in Upgrades}

ConfigEnvs == {MkEnv(u, a, m, None) : u \in ConfigUrls, a \in AllowedOrigins, m \in Modes}

ConfigResponses ==
    {[type |-> "response", status |-> 200, headers |-> UpstreamHeaders({}),
      body |-> StreamBody("upstream")]}

NextConfig ==
    \/ \E i \in Slots : Dispatch(i, ConfigRequests, ConfigEnvs, RequestIds)
    \/ \E i \in Slots : UpstreamResponds(i, ConfigResponses)
    \/ \E i \in Slots : UpstreamThrows(i)
    \/ \E i \in Slots : WebSocketResponds(i, ConfigResponses)
    \/ \E i \in Slots : PassthroughResponds(i, ConfigResponses)
    \/ \E i \in Slots : PassthroughThrows(i)

SpecConfig == Init /\ [][NextConfig]_vars

\* C18: every fetch to the upstream goes to the upstream base URL followed
\* by the sanitized sub-path (the request path behind the prefix, sanitized)
\* followed by the request's query string.
C18_TargetUrl ==
    \A i \in Slots : \A k \in DOMAIN fetches[i] :
        fetches[i][k].kind \in {"upstream", "websocket"} =>
            fetches[i][k].url =
                UPSTREAM_URL(env[i]) \o sanitizePath(Slice(PathOf(i), 11))
                    \o ParseURL(req[i].url).search

\* C12: when the effective upstream URL fails validation, every request is
\* answered 500 'Configuration Error' at once: one error event is logged, no
\* fetch is issued, and the message is the validator's reason in development
\* and 'Server misconfigured' otherwise.
C12_ConfigurationError ==
    \A i \in Slots :
        (pc[i] # "idle" /\ ~ValidConfig(i)) =>
            /\ pc[i] = "done"
            /\ fetches[i] = << >>
            /\ Len(logs[i]) = 1
            /\ logs[i][1].level = "error"
            /\ logs[i][1].message = "Invalid K8S_API_URL configuration"
            /\ response[i].type = "response"
            /\ response[i].status = 500
            /\ response[i].body =
                    JsonBody([error |-> "Configuration Error",
                              message |-> IF IsDevelopment(i)
                                          THEN validateApiUrl(Some(UPSTREAM_URL(env[i]))).error
                                          ELSE "Server misconfigured",
                              requestId |-> requestId[i]])

\* a preflight from a foreign origin under a strict policy, in development,
\* with an upstream URL on localhost
C12_Witness ==
    \E i \in Slots :
        /\ pc[i] = "done"
        /\ env[i].K8S_API_URL = Some("https://localhost:6443")
        /\ IsDevelopment(i)
        /\ req[i].method = "OPTIONS"
        /\ OriginOf(i) = Some("https://evil.test")
        /\ ALLOWED_ORIGIN(env[i]) # "*"
        /\ response[i].status = 500
        /\ response[i].body.json.message = "URL cannot point to localhost or private networks"

-----------------------------------------------------------------------------
(* SpecValidate: validateApiUrl applied to URL strings built from parts *)

UrlSchemes == {"https://", "HTTPS://", "http://", "ftp://", "file:", ""}

UrlHosts ==
    {"api.example.com", "API.Example.COM", "localhost", "LocalHost", "127.0.0.1",
     "192.168.1.1", "10.0.0.8", "172.16.0.1", "192.169.0.1", "100.64.0.1",
     "localhost.example.com", "10.example.com", "example.com.localhost"}

UrlTails == {"", ":6443", "/api?x=1"}

\* the argument: absent, the empty string, or a scheme, a host and a tail
UrlInputs ==
    {None, <<"", "", "">>, <<"https://", "", "">>, <<"https://", "", ":6443">>}
        \cup (UrlSchemes \X UrlHosts \X UrlTails)

UrlString(a) == IF a = None THEN None ELSE Some(a[1] \o a[2] \o a[3])

InitValidate == InitSlots({}) /\ arg \in UrlInputs /\ ret = << >>

\* ret[1] = validateApiUrl(the string arg stands for)
ApplyValidate ==
    /\ ret = << >>
    /\ ret' = <<validateApiUrl(UrlString(arg))>>
    /\ UNCHANGED <<hvars, arg>>

NextValidate == ApplyValidate

SpecValidate == InitValidate /\ [][NextValidate]_vars

\* the decision the parts of the argument call for
ShouldBeValid(a) ==
    /\ a # None
    /\ ToLowerCase(a[1]) = "https://"
    /\ a[2] # ""
    /\ ToLowerCase(a[2]) \notin {"localhost", "127.0.0.1"}
    /\ ~StartsWith(ToLowerCase(a[2]), "192.168.")
    /\ ~StartsWith(ToLowerCase(a[2]), "10.")

ValidatorReasons ==
    {"URL is required and must be a string", "URL is malformed",
     "URL must use HTTPS protocol", "URL must have a valid hostname",
     "URL cannot point to localhost or private networks"}

\* C13: validateApiUrl returns valid exactly for a non-empty string that is
\* an absolute https URL with a host whose lower-cased name is neither
\* localhost nor 127.0.0.1 and begins with neither 192.168. nor 10.; every
\* other argument gets valid = false with one of the validator's reasons.
C13_ValidateApiUrl ==
    ret # << >> =>
        /\ ret[1].valid = ShouldBeValid(arg)
        /\ ret[1].valid => ret[1].error = ""
        /\ ~ret[1].valid => ret[1].error \in ValidatorReasons

\* an https URL on a host in 10.0.0.0/8, with a port, has been refused
C13_Witness ==
    /\ arg = <<"HTTPS://", "10.0.0.8", ":6443">>
    /\ ret # << >>
    /\ ~ret[1].valid
    /\ ret[1].error = "URL cannot point to localhost or private networks"

-----------------------------------------------------------------------------
(* SpecOrigin: validateOrigin applied to origins and policies built from parts *)

OriginSchemes == {"https://", "http://", ""}

OriginHosts ==
    {"a.com", "B.COM", "app.example.com", "App.Example.com", "example.com",
     "notexample.com", "example.com.evil.test"}

OriginPorts == {"", ":8443"}

\* the Origin header: absent, empty, or a scheme, a host and a port
OriginInputs == {None, <<"", "", "">>} \cup (OriginSchemes \X OriginHosts \X OriginPorts)

\* the entries of ALLOWED_ORIGIN as they are written between the commas
PolicyInputs ==
    {<<"*">>, <<" * ">>, <<"*", "https://a.com">>,
     <<"https://a.com", " https://b.com">>, <<"*.example.com">>,
     <<"https://a.com:8443 ", "  *.Example.com ">>, <<"HTTPS://B.com", "">>,
     <<"*.example.com", "app.example.com">>}

OriginString(o) == IF o = None THEN None ELSE Some(o[1] \o o[2] \o o[3])

InitOrigin == InitSlots({}) /\ arg \in OriginInputs \X PolicyInputs /\ ret = << >>

\* ret[1] = validateOrigin(the header arg[1] stands for, the policy of arg[2])
ApplyOrigin ==
    /\ ret = << >>
    /\ ret' = <<validateOrigin(OriginString(arg[1]), Join(arg[2], ","))>>
    /\ UNCHANGED <<hvars, arg>>

NextOrigin == ApplyOrigin

SpecOrigin == InitOrigin /\ [][NextOrigin]_vars

\* the entry, trimmed and lower-cased, is the whole origin in lower case, or
\* is "*.d" and the origin is a URL whose host is d or ends with ".d"
EntryAllows(entry, o) ==
    \/ TrimLower(entry) = ToLowerCase(o[1] \o o[2] \o o[3])
    \/ /\ StartsWith(TrimLower(entry), "*.")
       /\ o[1] # ""
       /\ \/ ToLowerCase(o[2]) = Slice(TrimLower(entry), 2)
          \/ EndsWith(ToLowerCase(o[2]), "." \o Slice(TrimLower(entry), 2))

\* the reference decision for a header and the entries of a policy
ReferenceDecision(o, entries) ==
    IF entries = <<"*">>
    THEN [allowed |-> TRUE, matchedOrigin |-> "*"]
    ELSE IF o = None \/ o = <<"", "", "">>
    THEN [allowed |-> FALSE, matchedOrigin |-> ""]
    ELSE IF \E k \in 1..Len(entries) : EntryAllows(entries[k], o)
    THEN [allowed |-> TRUE, matchedOrigin |-> o[1] \o o[2] \o o[3]]
    ELSE [allowed |-> FALSE, matchedOrigin |-> ""]

\* C14: validateOrigin equals the reference decision for every origin and
\* policy: '*' allows everything and echoes '*'; otherwise an absent origin
\* is refused, and an origin is allowed (and echoed in its original case)
\* exactly when it equals a list entry case-insensitively or its host is
\* the domain of a '*.d' entry or a subdomain of it.
C14_ValidateOrigin ==
    ret # << >> => ret[1] = ReferenceDecision(arg[1], arg[2])

\* 'https://B.COM' is allowed by the list 'HTTPS://B.com,' and echoed as sent
C14_Witness ==
    /\ arg = << <<"https://", "B.COM", "">>, <<"HTTPS://B.com", "">> >>
    /\ ret = <<[allowed |-> TRUE, matchedOrigin |-> "https://B.COM"]>>

-----------------------------------------------------------------------------
(* SpecForward: one invocation on the non-upgrade api-proxy path, over the  *)
(* methods, request bodies and upstream statuses                            *)

ForwardMethods == {"GET", "HEAD", "POST", "PUT", "PATCH", "DELETE", "OPTIONS"}

\* a request with or without a body stream, whatever its method
ForwardBodies == {None, Some("request-body")}

ForwardRequests ==
    {[MkRequest("/kubernetes/api/v1/pods?limit=5", m, None, None, None) EXCEPT !.body = b] :
        m \in ForwardMethods, b \in ForwardBodies}

ForwardEnvs == {MkEnv(None, None, m, None) : m \in Modes}

ForwardStatuses == {200, 204, 400, 404, 500, 502, 503}

ForwardResponses ==
    {[type |-> "response", status |-> st, headers |-> UpstreamHeaders(S),
      body |-> IF st = 204 THEN NullBody ELSE StreamBody("upstream")] :
        st \in ForwardStatuses, S \in {{}, {"server"}, {"content-type"}}}

NextForward ==
    \/ \E i \in Slots : Dispatch(i, ForwardRequests, ForwardEnvs, RequestIds)
    \/ \E i \in Slots : UpstreamResponds(i, ForwardResponses)
    \/ \E i \in Slots : UpstreamThrows(i)

SpecForward == Init /\ [][NextForward]_vars

\* C16: the request sent upstream on the non-upgrade path has the incoming
\* request's method; it has no body for GET and HEAD, and for every other
\* method its body is the incoming request's body stream.
C16_MethodAndBody ==
    \A i \in Slots : \A k \in DOMAIN fetches[i] :
        fetches[i][k].kind = "upstream" =>
            /\ fetches[i][k].method = req[i].method
            /\ fetches[i][k].body =
                   IF req[i].method \in {"GET", "HEAD"} THEN None ELSE req[i].body

\* a PATCH with a body stream has been forwarded
C16_Witness ==
    \E i \in Slots :
        /\ Took(i, "upstream")
        /\ req[i].method = "PATCH"
        /\ req[i].body = Some("request-body")
        /\ fetches[i][1].body = Some("request-body")

\* the names hardenHeaders writes or deletes
HardenedNames ==
    {"access-control-allow-origin", "access-control-expose-headers",
     "x-content-type-options", "x-frame-options", "x-xss-protection",
     "referrer-policy", "strict-transport-security", "x-request-id",
     "cache-control", "pragma", "server", "x-powered-by"}

\* C17: whenever the upstream fetch resolves, with any status, the response
\* has the upstream's status and body, the hardening headers, and the
\* upstream's other headers; a status outside 2xx is not turned into a 502.
C17_StatusPassthrough ==
    \A i \in Slots :
        (Took(i, "upstream") /\ outcome[i].kind = "resolved") =>
            /\ pc[i] = "done"
            /\ response[i].type = "response"
            /\ response[i].status = outcome[i].response.status
            /\ response[i].body = outcome[i].response.body
            /\ response[i].headers["x-content-type-options"] = Some("nosniff")
            /\ response[i].headers["x-frame-options"] = Some("DENY")
            /\ response[i].headers["x-request-id"] = Some(requestId[i])
            /\ response[i].headers["server"] = None
            /\ \A n \in HeaderNames \ HardenedNames :
                   response[i].headers[n] = outcome[i].response.headers[n]

\* the upstream answered 503 with its own Content-Type
C17_Witness ==
    \E i \in Slots :
        /\ Took(i, "upstream")
        /\ outcome[i].kind = "resolved"
        /\ outcome[i].response.status = 503
        /\ outcome[i].response.headers["content-type"] = Some("upstream")
        /\ response[i].status = 503
        /\ response[i].headers["content-type"] = Some("upstream")

-----------------------------------------------------------------------------
(* SpecPassthrough: one invocation on the dashboard paths, over the methods *)

PassthroughPaths ==
    {"/kubernetes", "/kubernetes/", "/kubernetes?tab=1", "/kubernetes/dashboard",
     "/kubernetes/dashboard/app.js?v=2", "/kubernetes/dashboards"}

PassthroughRequests ==
    {MkRequest(p, m, o, u, None) :
        p \in PassthroughPaths, m \in ForwardMethods,
        o \in {None, Some("https://evil.test")}, u \in Upgrades}

PassthroughEnvs == {MkEnv(u, a, None, t) : u \in ApiUrls, a \in AllowedOrigins, t \in Tokens}

NextPassthrough ==
    \/ \E i \in Slots : Dispatch(i, PassthroughRequests, PassthroughEnvs, {"uuid-1"})
    \/ \E i \in Slots : PassthroughResponds(i, PlainResponses)
    \/ \E i \in Slots : PassthroughThrows(i)

SpecPassthrough == Init /\ [][NextPassthrough]_vars

\* the original request handed to fetch as it came
OriginalRequestFetch(i) ==
    [kind |-> "passthrough", url |-> req[i].url, method |-> req[i].method,
     headers |-> req[i].headers, body |-> req[i].body]

\* the only fetch is the one of the original request, no event is logged,
\* and the response the serving origin gives is returned as it is
PassedThrough(i) ==
    /\ fetches[i] = <<OriginalRequestFetch(i)>>
    /\ logs[i] = << >>
    /\ pc[i] = "done" => outcome[i].kind \in {"resolved", "rejected"}
    /\ outcome[i].kind = "resolved" => response[i] = outcome[i].response

\* C19 as stated: for every HTTP method, a request for the prefix, the
\* prefix plus '/', or a path that begins with the prefix plus '/dashboard'
\* is passed through to the serving origin unmodified, never contacts the
\* upstream, and its response is returned without hardening.
C19_Original ==
    \A i \in Slots :
        (pc[i] # "idle" /\ isDashboardPath(PathOf(i))) => PassedThrough(i)

\* C19 amended: the same for every method other than OPTIONS under a valid
\* configuration.
C19_Passthrough ==
    \A i \in Slots :
        (pc[i] # "idle" /\ ValidConfig(i) /\ req[i].method # "OPTIONS"
            /\ \/ PathOf(i) \in {"/kubernetes", "/kubernetes/"}
               \/ StartsWith(PathOf(i), "/kubernetes/dashboard")) =>
            PassedThrough(i)

\* a DELETE below /kubernetes/dashboard from a foreign origin under a strict
\* policy, answered by the serving origin with a Server header
C19_Witness ==
    \E i \in Slots :
        /\ pc[i] = "done"
        /\ ValidConfig(i)
        /\ req[i].method = "DELETE"
        /\ PathOf(i) = "/kubernetes/dashboard/app.js"
        /\ OriginOf(i) = Some("https://evil.test")
        /\ ALLOWED_ORIGIN(env[i]) # "*"
        /\ outcome[i].kind = "resolved"
        /\ response[i].headers["server"] = Some("upstream")
        /\ response[i].headers["x-frame-options"] = None

-----------------------------------------------------------------------------
(* Order of effects on the forwarding path, under SpecForward *)

StartEvent == [kind |-> "log", what |-> "Proxying request"]

FinishEvent == [kind |-> "log", what |-> "Upstream response"]

\* how many entries of the sequence q satisfy: message = m
CountMessage(q, m) == Cardinality({k \in DOMAIN q : q[k].message = m})

\* C21: on the non-upgrade api-proxy path the start event is logged, then the
\* one upstream fetch is issued, then (when the fetch resolves) the finish
\* event with the upstream status and the duration is logged, then the
\* response is returned; there is exactly one start and one finish event, at
\* level info, and no finish event when the fetch throws.
C21_EventOrder ==
    \A i \in Slots :
        Took(i, "upstream") =>
            /\ Len(fetches[i]) = 1
            /\ CountMessage(logs[i], "Proxying request") = 1
            /\ logs[i][1].message = "Proxying request" /\ logs[i][1].level = "info"
            /\ SubSeq(events[i], 1, 2) = <<StartEvent, FetchEvent(fetches[i][1])>>
            /\ pc[i] = "awaitUpstream" => (Len(events[i]) = 2 /\ Len(logs[i]) = 1)
            /\ (pc[i] = "done" /\ outcome[i].kind = "resolved") =>
                  /\ events[i] = <<StartEvent, FetchEvent(fetches[i][1]),
                                   FinishEvent, Returned>>
                  /\ CountMessage(logs[i], "Upstream response") = 1
                  /\ logs[i][2].level = "info"
                  /\ logs[i][2].message = "Upstream response"
                  /\ logs[i][2].data.status = outcome[i].response.status
                  /\ logs[i][2].data.durationMs = outcome[i].durationMs
                  /\ response[i].type = "response"
            /\ (pc[i] = "done" /\ outcome[i].kind = "rejected") =>
                  /\ CountMessage(logs[i], "Upstream response") = 0
                  /\ \A k \in DOMAIN events[i] : events[i][k] # FinishEvent

\* a POST was forwarded, answered 200 by the upstream and returned
C21_Witness ==
    \E i \in Slots :
        /\ Took(i, "upstream") /\ req[i].method = "POST"
        /\ pc[i] = "done" /\ outcome[i].kind = "resolved"
        /\ outcome[i].response.status = 200
        /\ Len(events[i]) = 4

-----------------------------------------------------------------------------
(* SpecSink: two invocations, one of them with a console.log that may throw *)

\* lines 331-344: log() calls console.log without a try of its own, so what
\* console.log throws is thrown by log() at its call site
SinkError == [message |-> "console.log failed", stack |-> "Error\n    at log"]

\* lines 482-496 entered with the error a log() call threw inside the try:
\* the catch block calls log() itself (line 485) before it builds the 502;
\* when that call throws too (again), the handler's promise rejects
CatchAfterSinkError(e, id, d, again) ==
    IF again
    THEN [logs |-> << >>, response |-> Rejected(SinkError), events |-> <<Threw>>]
    ELSE LET environment == environmentOf(e)
             data == IF environment = "development"
                     THEN [error |-> SinkError.message, stack |-> SinkError.stack,
                           durationMs |-> d]
                     ELSE [error |-> SinkError.message, durationMs |-> d]
         IN  [logs |-> log("error", "Worker exception", data, id, e),
              response |-> createErrorResponse(SinkError, id, environment,
                                               OrElse(e.ALLOWED_ORIGIN, "*")),
              events |-> <<[kind |-> "log", what |-> "Worker exception"], Returned>>]

\* lines 319-496: the first log() call of the invocation throws. Every branch
\* that logs does so before its first fetch and before its return, so no fetch
\* has been issued when the catch block is entered.
SinkThrowsAtDispatch(i, Rs, Es, Ids) ==
    /\ pc[i] = "idle"
    /\ \E r \in Rs, e \in Es, id \in Ids, d \in Durations, again \in BOOLEAN :
         LET h == Handle(r, e, id)
             c == CatchAfterSinkError(e, id, d, again)
         IN  /\ h.logs # << >>
             /\ req' = [req EXCEPT ![i] = r]
             /\ env' = [env EXCEPT ![i] = e]
             /\ requestId' = [requestId EXCEPT ![i] = id]
             /\ logs' = [logs EXCEPT ![i] = c.logs]
             /\ response' = [response EXCEPT ![i] = c.response]
             /\ events' = [events EXCEPT ![i] = c.events]
             /\ corsValidation' = [corsValidation EXCEPT ![i] = h.cors]
    /\ pc' = [pc EXCEPT ![i] = "done"]
    /\ UNCHANGED <<fetches, outcome, arg, ret>>

\* lines 467-496: the upstream fetch resolves and the log() call of line 474
\* throws
SinkThrowsAtFinish(i, Us) ==
    /\ pc[i] = "awaitUpstream"
    /\ \E u \in Us, d \in Durations, again \in BOOLEAN :
         LET c == CatchAfterSinkError(env[i], requestId[i], d, again)
         IN  /\ outcome' = [outcome EXCEPT ![i] =
                               [kind |-> "resolved", response |-> u, durationMs |-> d]]
             /\ logs' = [logs EXCEPT ![i] = @ \o c.logs]
             /\ response' = [response EXCEPT ![i] = c.response]
             /\ events' = [events EXCEPT ![i] = @ \o c.events]
    /\ pc' = [pc EXCEPT ![i] = "done"]
    /\ UNCHANGED <<req, env, requestId, fetches, corsValidation, arg, ret>>

\* lines 482-496: an awaited fetch rejects and the log() call of line 485
\* throws out of the catch block
SinkThrowsInCatch(i) ==
    /\ pc[i] \in {"awaitUpstream", "awaitWebSocket"}
    /\ \E err \in Errors, d \in Durations :
         /\ outcome' = [outcome EXCEPT ![i] =
                           [kind |-> "rejected", error |-> err, durationMs |-> d]]
         /\ response' = [response EXCEPT ![i] = Rejected(SinkError)]
    /\ events' = [events EXCEPT ![i] = @ \o <<Threw>>]
    /\ pc' = [pc EXCEPT ![i] = "done"]
    /\ UNCHANGED <<req, env, requestId, logs, fetches, corsValidation, arg, ret>>

\* the invocation "ok" writes to a working sink, "broken" to one that may throw
SinkPair == {"ok", "broken"}

SinkRequests ==
    {MkRequest(p, m, Some("https://evil.test"), u, None) :
        p \in {"/kubernetes/api/v1/pods", "/kubernetes/dashboard"},
        m \in {"GET", "OPTIONS"}, u \in Upgrades}

SinkEnvs == {MkEnv(None, a, None, None) : a \in AllowedOrigins}

InitSink == InitSlots(SinkPair) /\ arg = "" /\ ret = None

NextSink ==
    \/ \E i \in Slots : Dispatch(i, SinkRequests, SinkEnvs, {"uuid-1"})
    \/ \E i \in Slots : UpstreamResponds(i, PairResponses)
    \/ \E i \in Slots : UpstreamThrows(i)
    \/ \E i \in Slots : WebSocketResponds(i, PairResponses)
    \/ \E i \in Slots : PassthroughResponds(i, PairResponses)
    \/ \E i \in Slots : PassthroughThrows(i)
    \/ SinkThrowsAtDispatch("broken", SinkRequests, SinkEnvs, {"uuid-1"})
    \/ SinkThrowsAtFinish("broken", PairResponses)
    \/ SinkThrowsInCatch("broken")

SpecSink == InitSink /\ [][NextSink]_vars

\* C22: a log call that throws does not change the outcome: an invocation
\* whose sink may throw settles with the same response as an invocation with
\* the same request, bindings, request id and fetch result whose sink works,
\* and it does not reject because of the log call.
C22_SinkFailureContained ==
    (/\ pc["ok"] = "done" /\ pc["broken"] = "done"
     /\ req["ok"] = req["broken"] /\ env["ok"] = env["broken"]
     /\ requestId["ok"] = requestId["broken"]
     /\ outcome["ok"] = outcome["broken"]) =>
        /\ response["broken"] = response["ok"]
        /\ response["broken"] # Rejected(SinkError)

-----------------------------------------------------------------------------
(* One attempt per request, under Spec *)

FetchKinds(i) == {fetches[i][k].kind : k \in DOMAIN fetches[i]}

\* the 502 envelope of createErrorResponse
BadGateway(i) ==
    /\ response[i].type = "response"
    /\ response[i].status = 502
    /\ response[i].body.kind = "json"
    /\ response[i].body.json.error = "Gateway Error"

\* C23: an invocation issues at most one outbound fetch, so never a second
\* attempt and never a passthrough fetch together with an upstream fetch; an
\* upstream attempt that resolves is passed on with the upstream's status and
\* body, and one that throws ends in the 502 envelope.
C23_NoRetry ==
    \A i \in Slots :
        /\ Len(fetches[i]) <= 1
        /\ Cardinality({k \in DOMAIN events[i] : events[i][k].kind = "fetch"}) <= 1
        /\ ~({"passthrough", "upstream"} \subseteq FetchKinds(i))
        /\ ~({"passthrough", "websocket"} \subseteq FetchKinds(i))
        /\ (pc[i] = "done" /\ (Took(i, "upstream") \/ Took(i, "websocket"))) =>
              /\ outcome[i].kind = "resolved" =>
                    /\ response[i].type = "response"
                    /\ response[i].status = outcome[i].response.status
                    /\ response[i].body = outcome[i].response.body
              /\ outcome[i].kind = "rejected" => BadGateway(i)

\* an upstream fetch threw and the request was answered 502 without a second
\* fetch
C23_Witness ==
    \E i \in Slots :
        /\ pc[i] = "done" /\ Took(i, "upstream")
        /\ outcome[i].kind = "rejected"
        /\ Len(fetches[i]) = 1
        /\ response[i].status = 502

-----------------------------------------------------------------------------
(* SpecConcurrent: two invocations with different inputs, interleaved *)

ConcurrentRequests ==
    {MkRequest(p, "GET", o, u, None) :
        p \in {"/kubernetes/api/v1/pods", "/kubernetes/dashboard"},
        o \in {Some("https://evil.test")},
        u \in Upgrades}

ConcurrentEnvs == {MkEnv(None, a, None, None) : a \in AllowedOrigins}

NextConcurrent ==
    \/ \E i \in Slots : Dispatch(i, ConcurrentRequests, ConcurrentEnvs, RequestIds)
    \/ \E i \in Slots : UpstreamResponds(i, PairResponses)
    \/ \E i \in Slots : UpstreamThrows(i)
    \/ \E i \in Slots : WebSocketResponds(i, PairResponses)
    \/ \E i \in Slots : PassthroughResponds(i, PairResponses)
    \/ \E i \in Slots : PassthroughThrows(i)

SpecConcurrent == InitPair /\ [][NextConcurrent]_vars

\* what an invocation running alone answers, from its own request, bindings,
\* id and fetch result: h is what it did up to its first return or await
SoloResponse(i, h) ==
    IF h.pc = "done" THEN h.response
    ELSE IF outcome[i].kind = "none" THEN Pending
    ELSE IF outcome[i].kind = "resolved"
    THEN IF h.pc = "awaitUpstream"
         THEN ProxiedResponse(outcome[i].response,
                              hardenHeaders(outcome[i].response.headers,
                                            EffectiveOrigin(h.cors, env[i]),
                                            requestId[i]))
         ELSE outcome[i].response
    ELSE IF h.pc = "awaitPassthrough" THEN Rejected(outcome[i].error)
    ELSE createErrorResponse(outcome[i].error, requestId[i], environmentOf(env[i]),
                             OrElse(env[i].ALLOWED_ORIGIN, "*"))

\* the log events an invocation running alone has written
SoloLogs(i, h) ==
    IF pc[i] # "done" \/ h.pc \in {"done", "awaitPassthrough"} THEN h.logs
    ELSE IF outcome[i].kind = "resolved"
    THEN IF h.pc = "awaitUpstream"
         THEN h.logs \o log("info", "Upstream response",
                            [status |-> outcome[i].response.status,
                             durationMs |-> outcome[i].durationMs],
                            requestId[i], env[i])
         ELSE h.logs
    ELSE h.logs \o log("error", "Worker exception",
                       [error |-> outcome[i].error.message,
                        durationMs |-> outcome[i].durationMs],
                       requestId[i], env[i])

SoloHolds(i, h) ==
    /\ corsValidation[i] = h.cors
    /\ fetches[i] = h.fetches
    /\ pc[i] \in {h.pc, "done"}
    /\ logs[i] = SoloLogs(i, h)
    /\ response[i] = SoloResponse(i, h)
    /\ \A k \in DOMAIN logs[i] : logs[i][k].requestId = requestId[i]

\* C24: whatever another in-flight invocation has done, an invocation's
\* route and origin decision, its outbound fetch, its log events and its
\* response are those the handler gives for its own request, bindings, id and
\* fetch result alone.
C24_Independent ==
    \A i \in Slots :
        pc[i] # "idle" => SoloHolds(i, Handle(req[i], env[i], requestId[i]))

\* r1 is suspended at its upstream fetch while r2, with another id, another
\* request and a strict policy, has been turned away with 403
C24_Witness ==
    /\ pc["r1"] = "awaitUpstream" /\ pc["r2"] = "done"
    /\ requestId["r1"] # requestId["r2"]
    /\ req["r1"] # req["r2"] /\ env["r1"] # env["r2"]
    /\ response["r2"].type = "response" /\ response["r2"].status = 403

-----------------------------------------------------------------------------
(* SpecTrace: requests and upstream responses that bring an X-Request-ID *)

ClientRequestIds == {None, Some("client-id")}

TraceRequests ==
    {[MkRequest(p, "GET", o, u, None) EXCEPT !.headers = WithOptional(@, "X-Request-ID", c)] :
        p \in {"/kubernetes/api/v1/pods", "/kubernetes/proxy-health", "/other/path"},
        o \in {None, Some("https://evil.test")}, u \in Upgrades, c \in ClientRequestIds}

TraceEnvs == {MkEnv(None, a, None, None) : a \in AllowedOrigins}

TraceResponses ==
    {[type |-> "response", status |-> 200, headers |-> UpstreamHeaders(S),
      body |-> StreamBody("upstream")] : S \in {{}, {"x-request-id"}}}

NextTrace ==
    \/ \E i \in Slots : Dispatch(i, TraceRequests, TraceEnvs, RequestIds)
    \/ \E i \in Slots : UpstreamResponds(i, TraceResponses)
    \/ \E i \in Slots : UpstreamThrows(i)
    \/ \E i \in Slots : WebSocketResponds(i, TraceResponses)

SpecTrace == Init /\ [][NextTrace]_vars

\* C25: the invocation's request id is in every log entry, is the
\* X-Request-ID header of every request forwarded to the upstream, whatever
\* the client sent, and is the X-Request-ID header of the response returned
\* to the client, whatever the upstream sent.
C25_RequestId ==
    \A i \in Slots :
        /\ \A k \in DOMAIN logs[i] : logs[i][k].requestId = requestId[i]
        /\ \A k \in DOMAIN fetches[i] :
               fetches[i][k].kind \in {"upstream", "websocket"} =>
                   fetches[i][k].headers["x-request-id"] = Some(requestId[i])
        /\ (pc[i] = "done" /\ response[i].type = "response") =>
               response[i].headers["x-request-id"] = Some(requestId[i])

-----------------------------------------------------------------------------
(* Which fetch failures the catch block sees, under SpecConfig *)

ErrorLogged(i) == \E k \in DOMAIN logs[i] : logs[i][k].level = "error"
                                                /\ logs[i][k].message = "Worker exception"

-----------------------------------------------------------------------------
(* Reach of the strict-origin gate, under Spec *)

StatusIs(i, st) ==
    pc[i] = "done" /\ response[i].type = "response" /\ response[i].status = st

\* what a non-OPTIONS request off the api-proxy route gets; the request's
\* Origin header is not consulted
OffProxyOutcome(i, path) ==
    IF ~ValidConfig(i) THEN StatusIs(i, 500)
    ELSE IF path = "/robots.txt" THEN StatusIs(i, 200)
    ELSE IF path = "/kubernetes/proxy-health" THEN StatusIs(i, 200)
    ELSE IF ~StartsWith(path, "/kubernetes") THEN StatusIs(i, 404)
    ELSE /\ Took(i, "passthrough")
         /\ logs[i] = << >>
         /\ outcome[i].kind = "resolved" => response[i] = outcome[i].response
         /\ outcome[i].kind = "rejected" => response[i] = Rejected(outcome[i].error)

\* C27: under a non-wildcard policy a non-OPTIONS request for /robots.txt,
\* the health path, a path outside the prefix or a passthrough path is never
\* answered 403 and gets the outcome of its route (200, 200, 404,
\* passthrough; 500 under an invalid upstream URL) whether its Origin header
\* is allowed, disallowed or absent.
C27_GateScope ==
    \A i \in Slots :
        (pc[i] # "idle" /\ req[i].method # "OPTIONS" /\ ALLOWED_ORIGIN(env[i]) # "*"
            /\ ~ApiProxyRoute(i)) =>
            /\ ~StatusIs(i, 403)
            /\ OffProxyOutcome(i, PathOf(i))

\* the health route answered 200 to a request from a disallowed origin under
\* a strict policy
C27_Witness ==
    \E i \in Slots :
        /\ StatusIs(i, 200)
        /\ req[i].method = "GET"
        /\ ALLOWED_ORIGIN(env[i]) # "*"
        /\ OriginOf(i) = Some("https://evil.test")
        /\ PathOf(i) = "/kubernetes/proxy-health"

-----------------------------------------------------------------------------
(* Paths that continue the prefix without a slash, under SpecRoute *)

\* the path is the prefix followed by a character other than "/"
ContinuesPrefix(path) ==
    /\ StartsWith(path, "/kubernetes")
    /\ Len(path) > 11
    /\ CharAt(path, 12) # "/"

\* no "." and no "/" in the string
PlainName(s) == \A k \in 1..Len(s) : CharAt(s, k) \notin {".", "/"}

\* C28: a non-OPTIONS request whose path is '/kubernetes' followed by a
\* character other than '/' is not answered 404 by the gateway: it is taken
\* for the api-proxy route and one upstream fetch is issued; when the rest of
\* the path behind the 11 characters of the prefix is a plain name, the
\* upstream path is '/' followed by that rest ('/kubernetesX' goes to '/X').
C28_PrefixWithoutSlash ==
    \A i \in Slots :
        (pc[i] # "idle" /\ req[i].method # "OPTIONS" /\ ValidConfig(i)
            /\ ContinuesPrefix(PathOf(i))) =>
            /\ ApiProxyRoute(i)
            /\ Len(fetches[i]) = 1
            /\ fetches[i][1].kind = "upstream"
            /\ ~(outcome[i].kind = "none" /\ StatusIs(i, 404))
            /\ PlainName(Slice(PathOf(i), 11)) =>
                  fetches[i][1].url = DEFAULT_UPSTREAM_URL \o "/" \o Slice(PathOf(i), 11)

\* GET /kubernetesX has been forwarded to /X and answered by the upstream
C28_Witness ==
    \E i \in Slots :
        /\ pc[i] = "done" /\ req[i].method = "GET"
        /\ PathOf(i) = "/kubernetesX"
        /\ Took(i, "upstream")
        /\ fetches[i][1].url = "https://api.scarmonit.com/X"
        /\ outcome[i].kind = "resolved"

-----------------------------------------------------------------------------
(* SpecDefaults: bindings that are unset, empty or set *)

DefaultsRequests ==
    {MkRequest(p, m, o, u, None) :
        p \in MainPaths, m \in {"GET", "OPTIONS"},
        o \in {None, Some("https://evil.test")}, u \in Upgrades}

DefaultsEnvs ==
    {MkEnv(u, a, m, None) :
        u \in ApiUrls \cup {Some("")},
        a \in AllowedOrigins \cup {Some("")},
        m \in Modes \cup {Some("")}}

NextDefaults ==
    \/ \E i \in Slots : Dispatch(i, DefaultsRequests, DefaultsEnvs, {"uuid-1"})
    \/ \E i \in Slots : UpstreamResponds(i, PairResponses)
    \/ \E i \in Slots : UpstreamThrows(i)
    \/ \E i \in Slots : WebSocketResponds(i, PairResponses)
    \/ \E i \in Slots : PassthroughResponds(i, PairResponses)
    \/ \E i \in Slots : PassthroughThrows(i)

SpecDefaults == Init /\ [][NextDefaults]_vars

\* the binding is unset or the empty string
Unset(o) == o \in {None, Some("")}

\* C29: an unset or empty ALLOWED_ORIGIN gives the wildcard policy (no 403,
\* and '*' wherever Access-Control-Allow-Origin is written); an unset or empty
\* K8S_API_URL gives the default upstream, which passes validation (no 500,
\* and fetches go to the default upstream); an unset or empty ENVIRONMENT gives
\* production (in the health body and in every log entry, and no error
\* details in the 502 body).
C29_Defaults ==
    \A i \in Slots :
        pc[i] # "idle" =>
            /\ Unset(env[i].ALLOWED_ORIGIN) =>
                  /\ ~StatusIs(i, 403)
                  /\ (response[i].type = "response" /\ AllowOriginOf(i) # None) =>
                         AllowOriginOf(i) = Some("*")
            /\ Unset(env[i].K8S_API_URL) =>
                  /\ ~(StatusIs(i, 500) /\ outcome[i].kind = "none")
                  /\ \A k \in DOMAIN fetches[i] :
                         fetches[i][k].kind \in {"upstream", "websocket"} =>
                             StartsWith(fetches[i][k].url, "https://api.scarmonit.com/")
            /\ Unset(env[i].ENVIRONMENT) =>
                  /\ \A k \in DOMAIN logs[i] : logs[i][k].environment = "production"
                  /\ (StatusIs(i, 200) /\ PathOf(i) = "/kubernetes/proxy-health"
                         /\ req[i].method # "OPTIONS") =>
                         response[i].body.json.env = "production"
                  /\ BadGateway(i) => "details" \notin DOMAIN response[i].body.json

\* with all three bindings set to the empty string, a request from a foreign
\* origin was forwarded to the default upstream, whose fetch threw
C29_Witness ==
    \E i \in Slots :
        /\ env[i].ALLOWED_ORIGIN = Some("") /\ env[i].K8S_API_URL = Some("")
        /\ env[i].ENVIRONMENT = Some("")
        /\ OriginOf(i) = Some("https://evil.test")
        /\ Took(i, "upstream")
        /\ pc[i] = "done" /\ outcome[i].kind = "rejected"
        /\ response[i].status = 502

-----------------------------------------------------------------------------
(* Wildcard entries and the parts of an origin, under SpecOrigin *)

\* the domains d of the policy's entries of the form "*.d"
WildcardDomains(entries) ==
    {Slice(TrimLower(entries[k]), 2) :
        k \in {n \in 1..Len(entries) : StartsWith(TrimLower(entries[n]), "*.")}}

\* the host is d or a subdomain of d, for a wildcard domain d of the policy
UnderWildcard(host, entries) ==
    \E d \in WildcardDomains(entries) :
        ToLowerCase(host) = d \/ EndsWith(ToLowerCase(host), "." \o d)

\* some entry of the policy is the whole header value, case-insensitively
ExactEntry(value, entries) ==
    \E k \in 1..Len(entries) : TrimLower(entries[k]) = ToLowerCase(value)

\* C30: under a list policy, an origin written as scheme, host and optional
\* port whose host is the domain of a '*.d' entry or a subdomain of it is
\* allowed and echoed whatever its scheme and port; a value without ':',
\* which is not a URL, is allowed only when it equals an entry of the list.
C30_WildcardHostOnly ==
    (ret # << >> /\ arg[1] # None /\ arg[2] \notin {<<"*">>}) =>
        LET o == arg[1]
            value == o[1] \o o[2] \o o[3]
        IN  /\ (o[1] # "" /\ o[2] # "" /\ UnderWildcard(o[2], arg[2])) =>
                  ret[1] = [allowed |-> TRUE, matchedOrigin |-> value]
            /\ ~Contains(value, ":") =>
                  (ret[1].allowed <=> (value # "" /\ ExactEntry(value, arg[2])))

\* 'http://App.Example.com:8443' is allowed by '*.example.com'
C30_Witness ==
    /\ ret # << >>
    /\ arg[1] = <<"http://", "App.Example.com", ":8443">>
    /\ arg[2] = <<"*.example.com">>
    /\ ret[1] = [allowed |-> TRUE, matchedOrigin |-> "http://App.Example.com:8443"]

====
